---- MODULE Spec2Model ----
(***************************************************************************)
(* Model of the geocoding resolution engine of dmunish/reach               *)
(* (src/Backend/geocoding): candidate selection, search-threshold          *)
(* adjustment, directional parsing, hierarchy aggregation and the batch    *)
(* orchestrator.  Each component has its own specification over the        *)
(* shared variables; a component's specification leaves the other          *)
(* components' variables at their initial values.                          *)
(*                                                                         *)
(* Numbers.  Similarity scores are counted in 1/128 (0..128 is 0.0..1.0):  *)
(* such values are exact in binary floating point, so the subtraction and  *)
(* comparisons of name_matcher.py are exact on them.  0.99 lies strictly   *)
(* between 126/128 and 127/128 and 0.05 strictly between 6/128 and 7/128.  *)
(* Search thresholds are counted in 1/100 (0..100 is 0.0..1.0).            *)
(***************************************************************************)
EXTENDS Integers, Sequences, FiniteSets, TLC

VARIABLES
    \* NameMatcher._select_best_candidate
    candidates,            \* the candidate list handed to the selector
    prefer_lower_levels,   \* NameMatcher.prefer_lower_levels
    best_match,            \* index in candidates of the returned candidate, 0 before the call
    \* PlacesRepository.search_by_fuzzy_name, threshold adjustment
    threshold,             \* the configured threshold passed in
    name_len,              \* len(name)
    adjusted_threshold,    \* the threshold sent to the store, -1 before the call
    \* DirectionalParser.parse
    location_string,       \* the text given to parse, a sequence of tokens
    parsed,                \* what parse returned: [direction, place_names]
    \* GeocodingService._aggregate_hierarchy and the reference store behind it
    parent_of,             \* the store's hierarchy: parent_id of each place, 0 for none
    store_faulty,          \* whether the store's batch lookups may fail
    agg_input,             \* the places list of the outermost call
    agg_pc,                \* "start", "promote", "done"
    places,                \* the places argument of the running pass
    valid_places,          \* the pass's list, promoted parents appended
    place_by_id,           \* keys of place_by_id
    by_parent,             \* by_parent: the pass's places grouped by parent_id
    places_to_remove,      \* places_to_remove
    unique_parent_ids,     \* the parents of the promote loop not yet visited
    actual_child_counts,   \* what get_children_counts_batch returned
    parent_details,        \* keys of what get_by_ids_batch returned
    passes,                \* recursive calls made by the running call
    agg_result,            \* the list the outermost call returned
    agg_round,             \* 1: first call, 2: the call on the first call's result
    first_result,          \* the ids the first call returned
    \* GeocodingService.geocode_batch and geocode_location
    locations,             \* the locations argument of geocode_batch
    options,               \* the GeocodeOptions of the request
    results,               \* results of geocode_batch
    batch_pc,              \* "start", "loop", "done", or "raised" when geocode_batch raised
    loc_pc,                \* where geocode_location stands for the current location
    frame,                 \* the locals of the running geocode_location
    raised_at,             \* the positions whose resolution raised an exception
    \* ExternalGeocoder.disambiguate_by_centroid
    dis_candidates,        \* the candidates argument, a list of (lon, lat)
    dis_context,           \* the context_coords argument
    dis_result,            \* what the call gave: [error, coord]
    \* PlacesRepository: the in-memory place cache
    place_cache,           \* the keys of _place_cache, in insertion order
    cache_evicted,         \* the keys _add_to_cache has removed so far
    cache_returned,        \* the keys of the places the last call returned
    \* PlacesRepository and RedisCache: the result cache
    cache_instance,        \* _cache_instance: "None", "no_client" or "connected"
    redis_data,            \* what the Redis server holds, by namespace and identifier
    store_returned,        \* the data the store has returned so far, by namespace and identifier
    last_call              \* the last call of a cached query: what it did and returned

selVars == <<candidates, prefer_lower_levels, best_match>>
thrVars == <<threshold, name_len, adjusted_threshold>>
parseVars == <<location_string, parsed>>
aggVars ==
    <<parent_of, store_faulty, agg_input, agg_pc, places, valid_places,
      place_by_id, by_parent, places_to_remove, unique_parent_ids,
      actual_child_counts, parent_details, passes, agg_result, agg_round,
      first_result>>
batchVars == <<locations, options, results, batch_pc, loc_pc, frame, raised_at>>
disVars == <<dis_candidates, dis_context, dis_result>>
cacheVars == <<place_cache, cache_evicted, cache_returned>>
rcVars == <<cache_instance, redis_data, store_returned, last_call>>
vars == <<selVars, thrVars, parseVars, aggVars, batchVars, disVars, cacheVars, rcVars>>

\* ------------------------------------------------------------------ bounds
MaxCands == 3
MaxLevel == 3
MaxNameLen == 10
MaxTokens == 5
MaxPlaces == 4
MaxBatch == 2
MaxPoints == 2
MaxKeys == 4
\* the capacity of the place cache: _cache_maxsize, 500 in the repository,
\* at the scale of MaxKeys
CacheMaxsize == 2

\* ------------------------------------------------------- program constants
\* similarity_tolerance = 0.05, in 1/128: a difference d/128 <= 0.05 iff d <= 6
SimilarityTolerance == 6
\* 'exact_name' if similarity >= 0.99, in 1/128: s/128 >= 0.99 iff s >= 127
ExactMin == 127
\* fuzzy_match_threshold = 0.85
DefaultThreshold == 85
\* len(name) <= 5, max(0.40, threshold - 0.30)
VeryShortLen == 5
VeryShortFloor == 40
\* len(name) <= 8, max(0.50, threshold - 0.30)
ShortLen == 8
ShortFloor == 50
ThresholdCut == 30

\* ------------------------------------------------------------------ helpers
Max(a, b) == IF a >= b THEN a ELSE b

Levels == 1..MaxLevel

\* The similarity scores the store may report: a spread of fuzzy scores, two
\* within the tolerance of an exact one and the two exact values.
ScoreVals == {100, 115, 121, 122, 127, 128}

MatchCandidate == [hierarchy_level : Levels, similarity_score : ScoreVals]

CandidateLists == UNION {[1..n -> MatchCandidate] : n \in 1..MaxCands}

\* ------------------------------------------- NameMatcher._select_best_candidate
\* max(c.get('similarity_score', 0) for c in candidates)
BestSimilarity(cs) ==
    CHOOSE s \in {cs[i].similarity_score : i \in 1..Len(cs)} :
        \A i \in 1..Len(cs) : cs[i].similarity_score <= s

\* the positions of top_candidates in candidates
TopCandidates(cs) ==
    {i \in 1..Len(cs) :
        BestSimilarity(cs) - cs[i].similarity_score <= SimilarityTolerance}

\* Python's max(iterable, key=...) returns the first element of maximal key.
\* max(candidates, key=lambda x: x.get('similarity_score', 0)) over positions idx
FirstMaxSimilarity(cs, idx) ==
    CHOOSE i \in idx :
        /\ \A j \in idx : cs[j].similarity_score <= cs[i].similarity_score
        /\ \A j \in idx : j < i => cs[j].similarity_score < cs[i].similarity_score

\* max(top_candidates, key=lambda x: x.get('hierarchy_level', 0)) over positions idx
FirstMaxLevel(cs, idx) ==
    CHOOSE i \in idx :
        /\ \A j \in idx : cs[j].hierarchy_level <= cs[i].hierarchy_level
        /\ \A j \in idx : j < i => cs[j].hierarchy_level < cs[i].hierarchy_level

\* mutant: among the top candidates take the most general (lowest level)
SelectBestLowestLevel(cs, prefer) ==
    IF Len(cs) = 1 THEN 1
    ELSE IF ~prefer THEN FirstMaxSimilarity(cs, 1..Len(cs))
    ELSE CHOOSE i \in TopCandidates(cs) :
            \A j \in TopCandidates(cs) :
                cs[i].hierarchy_level <= cs[j].hierarchy_level

\* mutant: the tolerance filter is dropped, every candidate is a top candidate
SelectBestNoTolerance(cs, prefer) ==
    IF Len(cs) = 1 THEN 1
    ELSE IF ~prefer THEN FirstMaxSimilarity(cs, 1..Len(cs))
    ELSE FirstMaxLevel(cs, 1..Len(cs))

\* the index of the candidate _select_best_candidate returns
SelectBestCandidate(cs, prefer) ==
    IF Len(cs) = 1 THEN 1
    ELSE IF ~prefer THEN FirstMaxSimilarity(cs, 1..Len(cs))
    ELSE FirstMaxLevel(cs, TopCandidates(cs))

\* 'exact_name' if similarity >= 0.99 else 'fuzzy_name'
MatchMethod(similarity) ==
    IF similarity >= ExactMin THEN "exact_name" ELSE "fuzzy_name"



Select ==
    /\ best_match = 0
    /\ best_match' = SelectBestCandidate(candidates, prefer_lower_levels)
    /\ UNCHANGED <<candidates, prefer_lower_levels, thrVars, disVars, cacheVars, rcVars, parseVars, aggVars, batchVars>>

\* -------------------------------------------------- selector: claims C7, C8
Selected == candidates[best_match]

ExactIdx == {i \in 1..Len(candidates) : candidates[i].similarity_score >= ExactMin}

ExactAt(l) == \E i \in ExactIdx : candidates[i].hierarchy_level = l

Abs(n) == IF n < 0 THEN 0 - n ELSE n

\* (similarity, -|level - 2|) of a is lexicographically <= that of b
FuzzyKeyLeq(a, b) ==
    \/ a.similarity_score < b.similarity_score
    \/ /\ a.similarity_score = b.similarity_score
       /\ Abs(a.hierarchy_level - 2) >= Abs(b.hierarchy_level - 2)

\* C7 as stated: when the list holds exact matches, the selector returns an
\* exact match at level 2 if there is one, else one at level 3 if there is
\* one, else any exact match.
C7_ExactLevelTwoPreferred ==
    (best_match # 0 /\ ExactIdx # {}) =>
        /\ best_match \in ExactIdx
        /\ ExactAt(2) => Selected.hierarchy_level = 2
        /\ (~ExactAt(2) /\ ExactAt(3)) => Selected.hierarchy_level = 3

\* C7 amended: given exact matches at levels 1, 2 and 3, the selector with
\* prefer_lower_levels set returns the first candidate of the highest
\* hierarchy level among those within the tolerance of the best similarity
\* (level 3 or deeper, never the level-2 one); with prefer_lower_levels unset
\* it returns the first candidate of maximal similarity, whatever its level.
C7_HighestLevelWithinTolerance ==
    (best_match # 0 /\ ExactAt(1) /\ ExactAt(2) /\ ExactAt(3)) =>
        /\ prefer_lower_levels =>
            /\ best_match \in TopCandidates(candidates)
            /\ \A j \in TopCandidates(candidates) :
                 /\ candidates[j].hierarchy_level <= Selected.hierarchy_level
                 /\ j < best_match =>
                      candidates[j].hierarchy_level < Selected.hierarchy_level
            /\ Selected.hierarchy_level >= 3
        /\ ~prefer_lower_levels =>
            /\ best_match \in ExactIdx
            /\ \A j \in 1..Len(candidates) :
                 /\ candidates[j].similarity_score <= Selected.similarity_score
                 /\ j < best_match =>
                      candidates[j].similarity_score < Selected.similarity_score

C7_Witness ==
    /\ best_match # 0
    /\ prefer_lower_levels
    /\ ExactAt(1) /\ ExactAt(2) /\ ExactAt(3)
    /\ Selected.hierarchy_level = 3

\* C8 as stated: with no exact match in the list, the selected candidate
\* maximizes (similarity_score, -|hierarchy_level - 2|) lexicographically.
C8_FuzzyMaximizesScoreThenLevelTwo ==
    (best_match # 0 /\ ExactIdx = {}) =>
        \A j \in 1..Len(candidates) : FuzzyKeyLeq(candidates[j], Selected)

\* C8 amended: with no exact match in the list and prefer_lower_levels set,
\* the selected candidate has a similarity within the tolerance (0.05) of the
\* maximum, not necessarily the maximum, and the highest hierarchy level among
\* the candidates within that tolerance; with prefer_lower_levels unset, or a
\* single candidate, it has the maximal similarity of the list.
C8_FuzzyWithinToleranceHighestLevel ==
    (best_match # 0 /\ ExactIdx = {}) =>
        /\ (prefer_lower_levels /\ Len(candidates) > 1) =>
            /\ BestSimilarity(candidates) - Selected.similarity_score
                 <= SimilarityTolerance
            /\ \A j \in 1..Len(candidates) :
                 (BestSimilarity(candidates) - candidates[j].similarity_score
                    <= SimilarityTolerance)
                 => candidates[j].hierarchy_level <= Selected.hierarchy_level
        /\ (~prefer_lower_levels \/ Len(candidates) = 1) =>
            Selected.similarity_score = BestSimilarity(candidates)

C8_Witness ==
    /\ best_match # 0
    /\ ExactIdx = {}
    /\ prefer_lower_levels
    /\ Len(candidates) > 1
    /\ Selected.similarity_score < BestSimilarity(candidates)

\* ------------------------------- PlacesRepository.search_by_fuzzy_name (threshold)
\* mutant: the two floors swapped
AdjustedThresholdSwapped(len, t) ==
    IF len <= VeryShortLen THEN Max(ShortFloor, t - ThresholdCut)
    ELSE IF len <= ShortLen THEN Max(VeryShortFloor, t - ThresholdCut)
    ELSE t

\* adjusted_threshold for a name of length len and a configured threshold t
AdjustedThreshold(len, t) ==
    IF len <= VeryShortLen THEN Max(VeryShortFloor, t - ThresholdCut)
    ELSE IF len <= ShortLen THEN Max(ShortFloor, t - ThresholdCut)
    ELSE t



AdjustThreshold ==
    /\ adjusted_threshold = -1
    /\ adjusted_threshold' = AdjustedThreshold(name_len, threshold)
    /\ UNCHANGED <<threshold, name_len, selVars, parseVars, aggVars, batchVars, disVars, cacheVars, rcVars>>

\* ------------------------------------------------------ threshold: claim C9
\* C9 as stated: for every configured threshold in [0,1], the threshold used
\* for a name of length <= 5 is at most the one used for a name of length > 8.
C9_ShortNeverAboveLong ==
    (adjusted_threshold # -1 /\ name_len <= VeryShortLen) =>
        adjusted_threshold <= AdjustedThreshold(ShortLen + 1, threshold)

\* C9 amended: for every configured threshold in [0.40, 1], the threshold used
\* for a name of length <= 5 is at most the one used for a name of length > 8,
\* which is the configured threshold unmodified.
C9_ShortNeverAboveLongFromFloor ==
    adjusted_threshold # -1 =>
        /\ (name_len <= VeryShortLen /\ threshold >= VeryShortFloor) =>
             adjusted_threshold <= AdjustedThreshold(ShortLen + 1, threshold)
        /\ name_len > ShortLen => adjusted_threshold = threshold

C9_Witness ==
    /\ adjusted_threshold = DefaultThreshold - ThresholdCut
    /\ name_len <= VeryShortLen
    /\ threshold = DefaultThreshold

\* ------------------------------------------------------- DirectionalParser
\* A text is a sequence of tokens: a word (a maximal run of word characters)
\* or a single separator character.  Two words are never adjacent, so every
\* word token starts and ends at a regex word boundary \b, and \s or [\s-]
\* matches exactly one separator token.
Separators == {" ", "-", ","}

IsWord(t) == t \notin Separators

\* re.IGNORECASE: the words of the patterns, compared in lower case
Lower(t) ==
    CASE t = "North" -> "north"
      [] t = "South" -> "south"
      [] t = "Eastern" -> "eastern"
      [] t = "Western" -> "western"
      [] t = "Central" -> "central"
      [] t = "Middle" -> "middle"
      [] t = "And" -> "and"
      [] OTHER -> t

\* One entry of _DIRECTION_PATTERNS.  single: the words the pattern matches
\* as one token; first, second: the words of a match "first[\s-]second".
CompoundPattern(d, ns, ew) ==
    [direction |-> d,
     single |-> {ns \o ew, ns \o ew \o "ern"},
     first |-> {ns},
     second |-> {ew, ew \o "ern"}]

SimplePattern(d, w) ==
    [direction |-> d, single |-> {w, w \o "ern"}, first |-> {}, second |-> {}]

\* mutant: the simple directions are tested before the compound ones
DirectionPatternsSimpleFirst ==
    << SimplePattern("NORTH", "north"),
       SimplePattern("SOUTH", "south"),
       SimplePattern("EAST", "east"),
       SimplePattern("WEST", "west"),
       CompoundPattern("NORTHEAST", "north", "east"),
       CompoundPattern("NORTHWEST", "north", "west"),
       CompoundPattern("SOUTHEAST", "south", "east"),
       CompoundPattern("SOUTHWEST", "south", "west"),
       [direction |-> "CENTRAL", single |-> {"central", "middle"},
        first |-> {}, second |-> {}] >>

\* _DIRECTION_PATTERNS, in the order of the list
DirectionPatterns ==
    << CompoundPattern("NORTHEAST", "north", "east"),
       CompoundPattern("NORTHWEST", "north", "west"),
       CompoundPattern("SOUTHEAST", "south", "east"),
       CompoundPattern("SOUTHWEST", "south", "west"),
       SimplePattern("NORTH", "north"),
       SimplePattern("SOUTH", "south"),
       SimplePattern("EAST", "east"),
       SimplePattern("WEST", "west"),
       [direction |-> "CENTRAL", single |-> {"central", "middle"},
        first |-> {}, second |-> {}] >>

\* the number of tokens the pattern matches from position i, 0 for no match
MatchLen(pat, s, i) ==
    IF Lower(s[i]) \in pat.single THEN 1
    ELSE IF /\ Lower(s[i]) \in pat.first
            /\ i + 2 <= Len(s)
            /\ s[i + 1] \in {" ", "-"}
            /\ Lower(s[i + 2]) \in pat.second
         THEN 3
    ELSE 0

\* pattern.search(s)
Search(pat, s) == \E i \in 1..Len(s) : MatchLen(pat, s, i) > 0

\* pattern.sub('', s): every non-overlapping match removed, left to right
RECURSIVE SubFrom(_, _, _)
SubFrom(pat, s, i) ==
    IF i > Len(s) THEN <<>>
    ELSE IF MatchLen(pat, s, i) > 0 THEN SubFrom(pat, s, i + MatchLen(pat, s, i))
    ELSE <<s[i]>> \o SubFrom(pat, s, i + 1)

\* str.strip()
RECURSIVE Strip(_)
Strip(s) ==
    IF s = <<>> THEN <<>>
    ELSE IF Head(s) = " " THEN Strip(Tail(s))
    ELSE IF s[Len(s)] = " " THEN Strip(SubSeq(s, 1, Len(s) - 1))
    ELSE s

\* the first position from i on that holds no space, Len(s) + 1 if none
RECURSIVE SkipSpaces(_, _)
SkipSpaces(s, i) ==
    IF i <= Len(s) /\ s[i] = " " THEN SkipSpaces(s, i + 1) ELSE i

\* the number of tokens _CONJUNCTION_PATTERN matches from position i:
\* \s+and\s+ | \s+or\s+ | ,\s*
DelimLen(s, i) ==
    IF s[i] = " "
    THEN LET j == SkipSpaces(s, i)
         IN  IF /\ j + 1 <= Len(s)
                /\ Lower(s[j]) \in {"and", "or"}
                /\ s[j + 1] = " "
             THEN SkipSpaces(s, j + 1) - i
             ELSE 0
    ELSE IF s[i] = "," THEN SkipSpaces(s, i + 1) - i
    ELSE 0

\* _CONJUNCTION_PATTERN.split(text): the parts between the matches
RECURSIVE SplitFrom(_, _, _, _)
SplitFrom(s, i, cur, acc) ==
    IF i > Len(s) THEN Append(acc, cur)
    ELSE IF DelimLen(s, i) > 0
         THEN SplitFrom(s, i + DelimLen(s, i), <<>>, Append(acc, cur))
    ELSE SplitFrom(s, i + 1, Append(cur, s[i]), acc)

\* [p.strip() for p in parts if p and p.strip()]
RECURSIVE CleanParts(_)
CleanParts(parts) ==
    IF parts = <<>> THEN <<>>
    ELSE IF Strip(Head(parts)) = <<>> THEN CleanParts(Tail(parts))
    ELSE <<Strip(Head(parts))>> \o CleanParts(Tail(parts))

\* _split_places
SplitPlaces(text) ==
    IF Strip(text) = <<>> THEN <<>>
    ELSE CleanParts(SplitFrom(text, 1, <<>>, <<>>))

\* the position in DirectionPatterns of the first pattern found in s, 0 if none
FirstPattern(s) ==
    IF \E k \in 1..Len(DirectionPatterns) : Search(DirectionPatterns[k], s)
    THEN CHOOSE k \in 1..Len(DirectionPatterns) :
            /\ Search(DirectionPatterns[k], s)
            /\ \A m \in 1..(k - 1) : ~Search(DirectionPatterns[m], s)
    ELSE 0

\* parse(location_string) -> (direction, place_names)
Parse(text) ==
    IF Strip(text) = <<>> THEN [direction |-> "None", place_names |-> <<>>]
    ELSE LET s == Strip(text)
             k == FirstPattern(s)
         IN  IF k = 0 THEN [direction |-> "None", place_names |-> <<s>>]
             ELSE [direction |-> DirectionPatterns[k].direction,
                   place_names |->
                       SplitPlaces(Strip(SubFrom(DirectionPatterns[k], s, 1)))]

Unparsed == [direction |-> "unparsed", place_names |-> <<>>]

\* the tokens the texts of the model are made of
Vocabulary ==
    {"North", "Eastern", "northeast", "south", "Central",
     "Sindh", "Balochistan", "and", " ", "-", ","}

WellFormed(s) == \A i \in 1..(Len(s) - 1) : ~(IsWord(s[i]) /\ IsWord(s[i + 1]))


ParseCall ==
    /\ parsed = Unparsed
    /\ parsed' = Parse(location_string)
    /\ UNCHANGED <<location_string, selVars, thrVars, disVars, cacheVars, rcVars, aggVars, batchVars>>

\* ------------------------------------------------------- parser: claim C10
\* the text mentions the compound direction ns-ew: as one word, or as two
\* words joined by one space or hyphen
CompoundMention(s, ns, ew) ==
    \E i \in 1..Len(s) :
        \/ Lower(s[i]) \in {ns \o ew, ns \o ew \o "ern"}
        \/ /\ i + 2 <= Len(s)
           /\ Lower(s[i]) = ns
           /\ s[i + 1] \in {" ", "-"}
           /\ Lower(s[i + 2]) \in {ew, ew \o "ern"}

WordMention(s, ws) == \E i \in 1..Len(s) : Lower(s[i]) \in ws

\* the direction the stated priority order gives a text: compound directions,
\* then North, South, East, West, then Central/middle
PriorityDirection(s) ==
    CASE CompoundMention(s, "north", "east") -> "NORTHEAST"
      [] CompoundMention(s, "north", "west") -> "NORTHWEST"
      [] CompoundMention(s, "south", "east") -> "SOUTHEAST"
      [] CompoundMention(s, "south", "west") -> "SOUTHWEST"
      [] WordMention(s, {"north", "northern"}) -> "NORTH"
      [] WordMention(s, {"south", "southern"}) -> "SOUTH"
      [] WordMention(s, {"east", "eastern"}) -> "EAST"
      [] WordMention(s, {"west", "western"}) -> "WEST"
      [] WordMention(s, {"central", "middle"}) -> "CENTRAL"
      [] OTHER -> "None"

NorthEasternBalochistan == <<"North", "-", "Eastern", " ", "Balochistan">>

\* C10: parse returns the direction of the first pattern, in the order
\* compound directions, North, South, East, West, Central, that occurs
\* anywhere in the text: a text with a compound phrase never yields a simple
\* direction, a text with a cardinal word and "central" never yields Central,
\* and "North-Eastern Balochistan" yields (North-East, "Balochistan").
C10_PriorityOrdering ==
    parsed # Unparsed =>
        /\ parsed.direction = PriorityDirection(location_string)
        /\ (\E ns \in {"north", "south"}, ew \in {"east", "west"} :
                CompoundMention(location_string, ns, ew))
             => parsed.direction \in
                    {"NORTHEAST", "NORTHWEST", "SOUTHEAST", "SOUTHWEST"}
        /\ (/\ WordMention(location_string, {"central", "middle"})
            /\ WordMention(location_string,
                   {"north", "northern", "south", "southern",
                    "east", "eastern", "west", "western"}))
             => parsed.direction \notin {"CENTRAL", "None"}
        /\ location_string = NorthEasternBalochistan =>
             parsed = [direction |-> "NORTHEAST",
                       place_names |-> << <<"Balochistan">> >>]

C10_Witness ==
    /\ location_string = NorthEasternBalochistan
    /\ parsed.direction = "NORTHEAST"
    /\ parsed.place_names = << <<"Balochistan">> >>

\* ------------------------------------------------------- parser: claim C11
\* the text left when the detected direction is removed, trimmed
Remainder(s) ==
    Strip(SubFrom(DirectionPatterns[FirstPattern(Strip(s))], Strip(s), 1))

\* C11 as stated: when a direction is detected and the remainder is not
\* empty, parse returns exactly one place name, the whole trimmed remainder,
\* also when the remainder contains "and", "or" or commas.
C11_OnePlaceNameUnsplit ==
    (parsed # Unparsed /\ parsed.direction # "None"
        /\ Remainder(location_string) # <<>>)
    => parsed.place_names = <<Remainder(location_string)>>


\* ------------------------------------------- GeocodingService._aggregate_hierarchy
\* The ids of the reference store's places.  Every place is a valid record
\* (a dict with id, name, hierarchy_level and parent_id), so the validation
\* loop of the function keeps every place of its input.
PlaceIds == 1..MaxPlaces

\* the hierarchies of the store: a parent precedes its children, 0 is no parent
Hierarchies == {h \in [PlaceIds -> 0..MaxPlaces] : \A i \in PlaceIds : h[i] < i}

\* hierarchy_level of a place: 1 at the top, one more than its parent's
RECURSIVE HierarchyLevel(_)
HierarchyLevel(i) == IF parent_of[i] = 0 THEN 1 ELSE 1 + HierarchyLevel(parent_of[i])

\* the true number of children of p: the rows with parent_id = p
ChildCount(p) == Cardinality({c \in PlaceIds : parent_of[c] = p})

\* the ids of a list
Ids(seq) == {seq[i] : i \in 1..Len(seq)}

\* a set of ids as a list, in ascending or in descending order of id
RECURSIVE Ascending(_)
Ascending(S) ==
    IF S = {} THEN <<>>
    ELSE LET m == CHOOSE x \in S : \A y \in S : x <= y
         IN  <<m>> \o Ascending(S \ {m})

RECURSIVE Descending(_)
Descending(S) ==
    IF S = {} THEN <<>>
    ELSE LET m == CHOOSE x \in S : \A y \in S : x >= y
         IN  <<m>> \o Descending(S \ {m})

InputLists == {Ascending(S) : S \in SUBSET PlaceIds} \cup
              {Descending(S) : S \in SUBSET PlaceIds}

\* by_parent[parent_key]: the places of the list with that parent_id, in order
GroupByParent(seq) ==
    [p \in 0..MaxPlaces |-> SelectSeq(seq, LAMBDA c : parent_of[c] = p)]

\* mutant: STEP 1 marks no parent
NoRedundantParents(seq) == {}

\* STEP 1: the parents that have a child in the list and are in the list
RedundantParents(seq) ==
    {parent_of[c] : c \in {x \in Ids(seq) : parent_of[x] # 0 /\ parent_of[x] \in Ids(seq)}}

\* the distinct parent ids the places of the list name
UniqueParentIds(seq) == {parent_of[c] : c \in {x \in Ids(seq) : parent_of[x] # 0}}

\* get_children_counts_batch: the counts of the parents asked for, or {} when
\* the query fails
ChildCountAnswers(asked) ==
    {[p \in asked |-> ChildCount(p)]} \cup
    (IF store_faulty THEN {[p \in asked |-> 0]} ELSE {})

\* get_by_ids_batch: every place asked for, or, when the query fails, only the
\* asked places the in-memory place cache holds
ParentDetailAnswers(asked) ==
    IF store_faulty THEN SUBSET asked ELSE {asked}

\* mutant: a parent with all children but one present counts as covered
FullyCoveredButOne(p) ==
    /\ actual_child_counts[p] > 0
    /\ Len(by_parent[p]) + 1 >= actual_child_counts[p]

\* if total_count > 0 and matched_count >= total_count
FullyCovered(p) ==
    /\ actual_child_counts[p] > 0
    /\ Len(by_parent[p]) >= actual_child_counts[p]

\* mutant: the marked places are not filtered out
AggregatedKeepsAll == valid_places

\* the list after "Build final result excluding marked places"
Aggregated == SelectSeq(valid_places, LAMBDA c : c \notin places_to_remove)

\* needs_recursion: a place of aggregated has its parent in aggregated
NeedsRecursion(seq) ==
    \E c \in Ids(seq) : parent_of[c] # 0 /\ parent_of[c] \in Ids(seq)

\* mutant: every pass with a list of several places is followed by another
RecursesOnAnyList == Len(Aggregated) > 1

\* if places_to_remove and len(aggregated) > 1 and needs_recursion
Recurses ==
    /\ places_to_remove # {}
    /\ Len(Aggregated) > 1
    /\ NeedsRecursion(Aggregated)

\* entry of a pass, up to the two batch lookups
AggStart ==
    /\ agg_pc = "start"
    /\ IF places = <<>>
       THEN /\ agg_pc' = "done"
            /\ agg_result' = <<>>
            /\ UNCHANGED <<valid_places, place_by_id, by_parent, places_to_remove,
                           unique_parent_ids, actual_child_counts, parent_details>>
       ELSE /\ agg_pc' = "promote"
            /\ valid_places' = places
            /\ place_by_id' = Ids(places)
            /\ by_parent' = GroupByParent(places)
            /\ places_to_remove' = RedundantParents(places)
            /\ unique_parent_ids' = UniqueParentIds(places)
            /\ actual_child_counts' \in ChildCountAnswers(UniqueParentIds(places))
            /\ parent_details' \in ParentDetailAnswers(UniqueParentIds(places))
            /\ UNCHANGED agg_result
    /\ UNCHANGED <<parent_of, store_faulty, agg_input, places, passes, agg_round,
                   first_result, selVars, thrVars, disVars, cacheVars, rcVars, parseVars, batchVars>>

\* one iteration of "for parent_id in unique_parent_ids", in the set's order
AggPromote(p) ==
    /\ agg_pc = "promote"
    /\ p \in unique_parent_ids
    /\ unique_parent_ids' = unique_parent_ids \ {p}
    /\ IF FullyCovered(p)
       THEN /\ IF p \notin place_by_id /\ p \in parent_details
               THEN /\ place_by_id' = place_by_id \cup {p}
                    /\ valid_places' = Append(valid_places, p)
               ELSE UNCHANGED <<place_by_id, valid_places>>
            /\ places_to_remove' = (places_to_remove \ {p}) \cup Ids(by_parent[p])
       ELSE UNCHANGED <<place_by_id, valid_places, places_to_remove>>
    /\ UNCHANGED <<parent_of, store_faulty, agg_input, agg_pc, places, by_parent,
                   actual_child_counts, parent_details, passes, agg_result,
                   agg_round, first_result, selVars, thrVars, disVars, cacheVars, rcVars, parseVars, batchVars>>

\* the end of a pass: the filtered list is returned or aggregated again
AggFinish ==
    /\ agg_pc = "promote"
    /\ unique_parent_ids = {}
    /\ IF Recurses
       THEN /\ agg_pc' = "start"
            /\ places' = Aggregated
            /\ passes' = passes + 1
            /\ UNCHANGED agg_result
       ELSE /\ agg_pc' = "done"
            /\ agg_result' = Aggregated
            /\ UNCHANGED <<places, passes>>
    /\ UNCHANGED <<parent_of, store_faulty, agg_input, valid_places, place_by_id,
                   by_parent, places_to_remove, unique_parent_ids,
                   actual_child_counts, parent_details, agg_round, first_result,
                   selVars, thrVars, disVars, cacheVars, rcVars, parseVars, batchVars>>

\* the caller aggregates the returned list once more
AggAgain ==
    /\ agg_pc = "done"
    /\ agg_round = 1
    /\ agg_round' = 2
    /\ first_result' = Ids(agg_result)
    /\ places' = agg_result
    /\ passes' = 0
    /\ agg_pc' = "start"
    /\ UNCHANGED <<parent_of, store_faulty, agg_input, valid_places, place_by_id,
                   by_parent, places_to_remove, unique_parent_ids,
                   actual_child_counts, parent_details, agg_result,
                   selVars, thrVars, disVars, cacheVars, rcVars, parseVars, batchVars>>

NextAggregate ==
    \/ AggStart
    \/ \E p \in PlaceIds : AggPromote(p)
    \/ AggFinish
    \/ AggAgain

\* ---------------------------------------------- aggregation: claims C3 to C6
\* a is a proper ancestor of x in the store's hierarchy
RECURSIVE IsAncestor(_, _)
IsAncestor(a, x) ==
    IF parent_of[x] = 0 THEN FALSE
    ELSE parent_of[x] = a \/ IsAncestor(a, parent_of[x])

Children(p) == {c \in PlaceIds : parent_of[c] = p}

FirstCallDone == agg_pc = "done" /\ agg_round = 1

\* C3 as stated: every place of the input is in the output, or has an
\* ancestor in the output, or has a descendant in the output (here with a
\* store whose lookups never fail).
C3_NoInputPlaceLost ==
    (FirstCallDone /\ ~store_faulty) =>
        \A x \in Ids(agg_input) :
            \/ x \in Ids(agg_result)
            \/ \E r \in Ids(agg_result) : IsAncestor(r, x) \/ IsAncestor(x, r)

\* C4 as stated: when the input is exactly the children of a parent P, all of
\* them, and the store reports P's true child count, the output is {P}.
C4_AllChildrenCollapseToParent ==
    FirstCallDone =>
        \A P \in PlaceIds :
            (/\ Children(P) # {}
             /\ Ids(agg_input) = Children(P)
             /\ actual_child_counts[P] = ChildCount(P))
            => Ids(agg_result) = {P}

\* C5: when the input is k children of a parent P, k strictly below P's true
\* child count, the output is the input: the same k children, P not added.
C5_PartialCoverageUnchanged ==
    FirstCallDone =>
        \A P \in PlaceIds :
            (/\ agg_input # <<>>
             /\ Ids(agg_input) \subseteq Children(P)
             /\ Len(agg_input) < ChildCount(P))
            => /\ agg_result = agg_input
               /\ P \notin Ids(agg_result)

C5_Witness ==
    /\ FirstCallDone
    /\ \E P \in PlaceIds :
        /\ Ids(agg_input) \subseteq Children(P)
        /\ Len(agg_input) = 2
        /\ ChildCount(P) = 3
        /\ actual_child_counts[P] = 3
        /\ agg_result = agg_input

\* C6 as stated: aggregating the output of an aggregation again returns the
\* same set of ids (here with a store whose lookups never fail).
C6_AggregationIdempotent ==
    (agg_pc = "done" /\ agg_round = 2 /\ ~store_faulty) =>
        Ids(agg_result) = first_result

\* ------------------------------------------------- aggregation: claim C22
\* a place of the list has its direct parent in the list
HasParentAndChild(seq) ==
    \E x \in Ids(seq) : parent_of[x] # 0 /\ parent_of[x] \in Ids(seq)

\* C22: the list _aggregate_hierarchy returns never holds a place together
\* with its direct parent.
C22_NoPlaceWithItsParent ==
    agg_pc = "done" => ~HasParentAndChild(agg_result)

C22_Witness ==
    /\ FirstCallDone
    /\ HasParentAndChild(agg_input)
    /\ passes > 0
    /\ Len(agg_result) > 1
    /\ ~HasParentAndChild(agg_result)

\* ------------------------------------------------- aggregation: claim C23
\* C23 as stated: when the input is all children of a place A together with
\* all siblings of A, A a child of G, one call returns exactly G (here with
\* a store whose lookups never fail).
C23_MultiLevelCollapse ==
    (FirstCallDone /\ ~store_faulty) =>
        \A A \in PlaceIds :
            (/\ parent_of[A] # 0
             /\ Children(A) # {}
             /\ Ids(agg_input) = Children(A) \cup (Children(parent_of[A]) \ {A}))
            => Ids(agg_result) = {parent_of[A]}

\* ------------------------------------------------- aggregation: claim C24
\* the depth of the store's hierarchy: the deepest hierarchy_level
HierarchyDepth ==
    CHOOSE d \in 1..MaxPlaces :
        /\ \E i \in PlaceIds : HierarchyLevel(i) = d
        /\ \A i \in PlaceIds : HierarchyLevel(i) <= d

\* C24: every call of _aggregate_hierarchy returns, and the call makes at
\* most as many recursive passes as the hierarchy is deep.
C24_AggregationTerminates ==
    /\ [](passes <= HierarchyDepth)
    /\ (agg_pc # "done") ~> (agg_pc = "done")

C24_Witness ==
    /\ FirstCallDone
    /\ passes = 2
    /\ HierarchyDepth > 2
    /\ agg_result # <<>>

\* ------------------------------------------------- aggregation: claim C25
\* the sum of the hierarchy levels of a list's places
RECURSIVE LevelSum(_)
LevelSum(seq) ==
    IF seq = <<>> THEN 0 ELSE HierarchyLevel(Head(seq)) + LevelSum(Tail(seq))

\* the step "return await self._aggregate_hierarchy(aggregated)"
RecursiveCall == agg_pc = "promote" /\ agg_pc' = "start"

\* C25 as stated: the list passed to the recursive call has strictly fewer
\* elements than the list the calling pass received.
C25_RecursionStrictlyShrinks ==
    [][RecursiveCall => Len(places') < Len(places)]_vars

\* C25 amended: the list passed to the recursive call is never longer than
\* the list the calling pass received, lacks a place of it, and the sum of
\* its places' hierarchy levels is strictly smaller.
C25_RecursionDescends ==
    [][RecursiveCall =>
          /\ Len(places') <= Len(places)
          /\ \E x \in Ids(places) : x \notin Ids(places')
          /\ LevelSum(places') < LevelSum(places)]_vars

\* a recursive pass that received as many places as the first pass, from a
\* store whose lookups never fail
C25_Witness ==
    /\ agg_pc = "start"
    /\ agg_round = 1
    /\ passes = 1
    /\ ~store_faulty
    /\ Len(places) = Len(agg_input)
    /\ Ids(places) # Ids(agg_input)

\* ------------------------------------------------- aggregation: claim C26
\* the lists that hold each element of S once
Orderings(S) ==
    {o \in [1..Cardinality(S) -> S] : \A i, j \in 1..Cardinality(S) : o[i] = o[j] => i = j}

\* "for parent_id in unique_parent_ids" run to its end over the parents in the
\* order given, with a store whose lookups succeed; st holds valid_places,
\* the keys of place_by_id and places_to_remove
RECURSIVE PromoteInOrder(_, _, _)
PromoteInOrder(list, order, st) ==
    IF order = <<>> THEN st
    ELSE LET p == Head(order)
             children_in_results == GroupByParent(list)[p]
         IN  PromoteInOrder(list, Tail(order),
                 IF ChildCount(p) > 0 /\ Len(children_in_results) >= ChildCount(p)
                 THEN [valid_places |-> IF p \notin st.place_by_id
                                        THEN Append(st.valid_places, p)
                                        ELSE st.valid_places,
                       place_by_id |-> st.place_by_id \cup {p},
                       places_to_remove |-> (st.places_to_remove \ {p})
                                             \cup Ids(children_in_results)]
                 ELSE st)

\* the id sets _aggregate_hierarchy can return for a list, one for every
\* order in which the passes can visit their parents
RECURSIVE AggregateOutcomes(_)
AggregateOutcomes(list) ==
    IF list = <<>> THEN {{}}
    ELSE UNION {
        LET st == PromoteInOrder(list, order,
                      [valid_places |-> list, place_by_id |-> Ids(list),
                       places_to_remove |-> RedundantParents(list)])
            aggregated == SelectSeq(st.valid_places,
                                    LAMBDA c : c \notin st.places_to_remove)
        IN  IF /\ st.places_to_remove # {}
               /\ Len(aggregated) > 1
               /\ NeedsRecursion(aggregated)
            THEN AggregateOutcomes(aggregated)
            ELSE {Ids(aggregated)}
        : order \in Orderings(UniqueParentIds(list))}

\* the id set a call returned is among the outcomes of its input list
ReturnedIsAnOutcome ==
    (FirstCallDone /\ ~store_faulty) =>
        Ids(agg_result) \in AggregateOutcomes(agg_input)

\* C26 as stated: with the hierarchy and the store's answers fixed, the id
\* set a call returns is the only one the function can return for the same
\* input set, whatever the order of the input list and whatever the order in
\* which the promote loop visits the parents.
C26_AggregationDeterministic ==
    (FirstCallDone /\ ~store_faulty) =>
        \A list \in Orderings(Ids(agg_input)) :
            AggregateOutcomes(list) = {Ids(agg_result)}

\* ------------------------------------------------- aggregation: claim C27
\* the promote loop of the pass has visited every parent
PassEnds == agg_pc = "promote" /\ unique_parent_ids = {}

\* C27 as stated: in every pass, a parent whose children the promote rule
\* removed is in the list the pass produces, also when get_by_ids_batch fails
\* or omits the parent while get_children_counts_batch succeeds.
C27_PromotedParentInOutput ==
    PassEnds =>
        \A p \in PlaceIds :
            (by_parent[p] # <<>> /\ FullyCovered(p)) => p \in Ids(Aggregated)

\* ------------------------------------------- PlacesRepository: the place cache
\* the ids a caller may ask for
CacheKeys == 1..MaxKeys

Keys(cache) == {cache[k] : k \in 1..Len(cache)}

\* mutant: no eviction
AddWithoutEviction(cache, place_id) ==
    IF place_id \in Keys(cache) THEN cache ELSE Append(cache, place_id)

\* mutant: at the capacity the last key of the dict goes
AddEvictingNewest(cache, place_id) ==
    LET kept == IF Len(cache) >= CacheMaxsize
                THEN SubSeq(cache, 1, Len(cache) - 1) ELSE cache
    IN  IF place_id \in Keys(kept) THEN kept ELSE Append(kept, place_id)

\* _add_to_cache: at the capacity the first key of the dict goes; the
\* assignment appends a new key and leaves a present key where it is
AddToCache(cache, place_id) ==
    LET kept == IF Len(cache) >= CacheMaxsize THEN Tail(cache) ELSE cache
    IN  IF place_id \in Keys(kept) THEN kept ELSE Append(kept, place_id)

\* for place in result.data: ... self._add_to_cache(place_id_str, place)
RECURSIVE AddRows(_, _)
AddRows(cache, rows) ==
    IF rows = <<>> THEN cache
    ELSE AddRows(AddToCache(cache, Head(rows)), Tail(rows))

\* result.data of the batch query: rows of some of the ids asked for, each
\* once, in any order; none when the query failed
RowLists(asked) ==
    UNION {{rows \in [1..Cardinality(found) -> found] :
               \A i, j \in 1..Cardinality(found) : rows[i] = rows[j] => i = j}
           : found \in SUBSET asked}

\* get_by_id(place_id): a cached place is returned as it is; a place found in
\* the store is added to the cache; None (no key) when the store has no such
\* place or the query failed
GetById(place_id) ==
    /\ IF place_id \in Keys(place_cache)
       THEN /\ cache_returned' = {place_id}
            /\ UNCHANGED <<place_cache, cache_evicted>>
       ELSE \E found \in BOOLEAN :
                IF found
                THEN /\ place_cache' = AddToCache(place_cache, place_id)
                     /\ cache_evicted' =
                            cache_evicted \cup (Keys(place_cache) \ Keys(place_cache'))
                     /\ cache_returned' = {place_id}
                ELSE /\ cache_returned' = {}
                     /\ UNCHANGED <<place_cache, cache_evicted>>
    /\ UNCHANGED <<selVars, thrVars, parseVars, aggVars, batchVars, disVars, rcVars>>

\* get_by_ids_batch(place_ids): the cached places are taken from the cache,
\* the others are asked of the store in one query and every row is added to
\* the cache; neither the order nor a repetition of place_ids matters
GetByIdsBatch(place_ids) ==
    /\ LET uncached_ids == place_ids \ Keys(place_cache)
       IN  \E rows \in RowLists(uncached_ids) :
              /\ place_cache' = AddRows(place_cache, rows)
              /\ cache_evicted' =
                     cache_evicted \cup (Keys(place_cache) \ Keys(place_cache'))
              /\ cache_returned' =
                     (place_ids \cap Keys(place_cache)) \cup Keys(rows)
    /\ UNCHANGED <<selVars, thrVars, parseVars, aggVars, batchVars, disVars, rcVars>>

NextCache ==
    \/ \E place_id \in CacheKeys : GetById(place_id)
    \/ \E place_ids \in SUBSET CacheKeys : GetByIdsBatch(place_ids)

\* --------------------------------------------------------- cache: claim C19
\* C19: whatever get_by_id and get_by_ids_batch calls were made, the place
\* cache holds at most _cache_maxsize entries, each key once.
C19_CacheWithinCapacity ==
    /\ Len(place_cache) <= CacheMaxsize
    /\ Cardinality(Keys(place_cache)) = Len(place_cache)

C19_Witness ==
    /\ Len(place_cache) = CacheMaxsize
    /\ Cardinality(cache_evicted \cup Keys(place_cache)) > CacheMaxsize
    /\ Cardinality(cache_returned) > CacheMaxsize

SettingsFields ==
    {"supabase_url", "supabase_key", "locationiq_api_key", "locationiq_base_url",
     "fuzzy_match_threshold", "prefer_lower_admin_levels", "cache_ttl_days"}

\* the names searched for, with len(name)
NameLength == ("Sibi" :> 4) @@ ("Islamabad" :> 9)

\* the (name, threshold) arguments of search_by_fuzzy_name
FuzzyCalls ==
    {<<"Sibi", 85>>, <<"Sibi", 70>>, <<"Sibi", 60>>, <<"Islamabad", 85>>}

\* the (base_place_ids, direction) arguments of find_places_in_direction
DirectionalCalls == {<<<<1>>, "north">>, <<<<1, 2>>, "north">>, <<<<2, 1>>, "north">>}

\* sorted(...) of a list of ids
RECURSIVE Sorted(_)
Sorted(seq) ==
    IF seq = <<>> THEN <<>>
    ELSE LET rest == Sorted(Tail(seq))
         IN  SelectSeq(rest, LAMBDA x : x <= Head(seq)) \o <<Head(seq)>>
                 \o SelectSeq(rest, LAMBDA x : x > Head(seq))

\* cache_key = f"fuzzy:{name}:{adjusted_threshold}"
FuzzyKey(name, t) == <<name, AdjustedThreshold(NameLength[name], t)>>

\* cache_key = f"{','.join(sorted_ids)}:{direction}"
DirectionalKey(base_place_ids, direction) == <<Sorted(base_place_ids), direction>>

\* nothing under any identifier of either namespace (_make_key prefixes the
\* namespace; identifiers over 100 characters are replaced by their md5
\* digest, taken here as collision free)
NothingCached ==
    [fuzzy_search |-> [k \in {FuzzyKey(c[1], c[2]) : c \in FuzzyCalls} |-> {}],
     directional |-> [k \in {DirectionalKey(c[1], c[2]) : c \in DirectionalCalls} |-> {}]]

\* what the rpc gives: it raises, or result.data is a list of rows
StoreAnswers ==
    {[raised |-> TRUE, data |-> <<>>]} \cup
    {[raised |-> FALSE, data |-> d] : d \in {<<>>, <<1>>}}

NoCall ==
    [fn |-> "None", cache |-> "None", hit |-> FALSE, asked |-> FALSE,
     answer |-> [raised |-> FALSE, data |-> <<>>], known |-> {}, returned |-> <<>>]

\* RedisCache.get: None ({} here) without a client, when the key is absent
\* and when Redis raises; else the value stored, through json.loads
CacheGet(namespace, identifier) ==
    IF cache_instance = "connected"
    THEN {redis_data[namespace][identifier], {}}
    ELSE {{}}

\* RedisCache.set: the value is stored through json.dumps; nothing is stored
\* without a client or when Redis raises
CacheSet(namespace, identifier, value) ==
    IF cache_instance = "connected"
    THEN {[redis_data EXCEPT ![namespace][identifier] = {value}], redis_data}
    ELSE {redis_data}

\* the body search_by_fuzzy_name and find_places_in_direction share: the
\* cache is read when one is installed; on None the rpc is made inside the
\* try block, whose except branch returns []; non-empty data is cached with
\* the ttl read from the settings and returned
CachedQuery(fn, namespace, identifier, ttl_field) ==
    /\ \E cached \in (IF cache_instance = "None" THEN {{}}
                      ELSE CacheGet(namespace, identifier)) :
        IF cached # {}
        THEN /\ last_call' = [NoCall EXCEPT
                    !.fn = fn, !.cache = cache_instance, !.hit = TRUE,
                    !.known = store_returned[namespace][identifier],
                    !.returned = CHOOSE v \in cached : TRUE]
             /\ UNCHANGED <<redis_data, store_returned>>
        ELSE \E answer \in StoreAnswers :
             /\ store_returned' =
                    IF answer.raised THEN store_returned
                    ELSE [store_returned EXCEPT ![namespace][identifier] = @ \cup {answer.data}]
             /\ IF answer.raised \/ answer.data = <<>>
                THEN /\ last_call' = [NoCall EXCEPT
                            !.fn = fn, !.cache = cache_instance, !.asked = TRUE,
                            !.answer = answer, !.returned = <<>>]
                     /\ UNCHANGED redis_data
                ELSE IF cache_instance = "None"
                THEN /\ last_call' = [NoCall EXCEPT
                            !.fn = fn, !.cache = cache_instance, !.asked = TRUE,
                            !.answer = answer, !.returned = answer.data]
                     /\ UNCHANGED redis_data
                ELSE IF ttl_field \in SettingsFields
                THEN /\ redis_data' \in CacheSet(namespace, identifier, answer.data)
                     /\ last_call' = [NoCall EXCEPT
                            !.fn = fn, !.cache = cache_instance, !.asked = TRUE,
                            !.answer = answer, !.returned = answer.data]
                ELSE \* settings.<ttl_field> raises AttributeError inside the try
                     /\ last_call' = [NoCall EXCEPT
                            !.fn = fn, !.cache = cache_instance, !.asked = TRUE,
                            !.answer = answer, !.returned = <<>>]
                     /\ UNCHANGED redis_data
    /\ UNCHANGED <<cache_instance, selVars, thrVars, parseVars, aggVars, batchVars,
                   disVars, cacheVars>>

SearchByFuzzyName(name, t) ==
    CachedQuery("search_by_fuzzy_name", "fuzzy_search", FuzzyKey(name, t),
                "redis_ttl_fuzzy")

FindPlacesInDirection(base_place_ids, direction) ==
    CachedQuery("find_places_in_direction", "directional",
                DirectionalKey(base_place_ids, direction), "redis_ttl_directional")

\* set_redis_cache, connect and disconnect: a cache is installed or removed,
\* its client connected or lost
SetRedisCache(instance) ==
    /\ instance # cache_instance
    /\ cache_instance' = instance
    /\ UNCHANGED <<redis_data, store_returned, last_call, selVars, thrVars, parseVars,
                   aggVars, batchVars, disVars, cacheVars>>

NextResultCache ==
    \/ \E c \in FuzzyCalls : SearchByFuzzyName(c[1], c[2])
    \/ \E c \in DirectionalCalls : FindPlacesInDirection(c[1], c[2])
    \/ \E instance \in {"None", "no_client", "connected"} : SetRedisCache(instance)

\* ---------------------------------------------------- result cache: claim C30
\* what the query returns for a store answer when no cache is installed
Uncached(answer) == IF answer.raised THEN <<>> ELSE answer.data

\* C30 as stated: a call that missed the cache asked the store and returns
\* what the store returned; a call that hit returns data the store returned
\* before under the same key; a cache without client or failing is a miss
\* and changes no result.
C30_ResultCacheTransparent ==
    last_call.fn # "None" =>
        /\ ~last_call.hit =>
              /\ last_call.asked
              /\ last_call.returned = Uncached(last_call.answer)
        /\ last_call.hit => last_call.returned \in last_call.known
        /\ last_call.cache # "connected" => ~last_call.hit

\* ------------------------------------ ExternalGeocoder.disambiguate_by_centroid
\* Coordinates are pairs (lon, lat) of integers from a small grid.  The
\* function computes the centroid and the distances in binary floating point.
\* When len(context_coords) is a power of two the division, and with it every
\* distance on these values, is exact.  Otherwise rounding is far below the
\* smallest non-zero difference of two distances, so it orders candidates of
\* different distance correctly but decides between candidates of the same
\* exact distance: the result is then any candidate of least distance.
\* Distances are compared multiplied by len(context_coords)^2.
Grid == {0, 1, 10}
Points == {<<x, y>> : x \in Grid, y \in Grid}
PointLists == UNION {[1..n -> Points] : n \in 0..MaxPoints}

RECURSIVE SumOf(_, _)
SumOf(coords, k) ==
    IF coords = <<>> THEN 0 ELSE Head(coords)[k] + SumOf(Tail(coords), k)

\* squared_distance(coord), times len(context_coords)^2
SquaredDistance(coord, context) ==
    (Len(context) * coord[1] - SumOf(context, 1)) * (Len(context) * coord[1] - SumOf(context, 1))
    + (Len(context) * coord[2] - SumOf(context, 2)) * (Len(context) * coord[2] - SumOf(context, 2))

\* the candidates of least squared_distance, by position
Nearest(cands, context) ==
    {i \in 1..Len(cands) :
        \A j \in 1..Len(cands) :
            SquaredDistance(cands[i], context) <= SquaredDistance(cands[j], context)}

\* min(candidates, key=squared_distance) on exact keys: the first of them
FirstNearest(cands, context) ==
    CHOOSE i \in Nearest(cands, context) : \A j \in Nearest(cands, context) : i <= j

ExactMean(context) == \E k \in 0..Len(context) : 2 ^ k = Len(context)

NoCoord == <<-1, -1>>
NotCalled == [error |-> "not called", coord |-> NoCoord]

\* mutant: the first candidate whatever the context
DisambiguateFirst(cands, context) ==
    IF cands = <<>> THEN {[error |-> "ValueError", coord |-> NoCoord]}
    ELSE {[error |-> "None", coord |-> cands[1]]}

\* disambiguate_by_centroid(candidates, context_coords): what the call can give
DisambiguateByCentroid(cands, context) ==
    IF cands = <<>> THEN {[error |-> "ValueError", coord |-> NoCoord]}
    ELSE IF Len(cands) = 1 \/ context = <<>>
         THEN {[error |-> "None", coord |-> cands[1]]}
    ELSE IF ExactMean(context)
         THEN {[error |-> "None", coord |-> cands[FirstNearest(cands, context)]]}
    ELSE {[error |-> "None", coord |-> cands[i]] : i \in Nearest(cands, context)}

Disambiguate ==
    /\ dis_result = NotCalled
    /\ dis_result' \in DisambiguateByCentroid(dis_candidates, dis_context)
    /\ UNCHANGED <<dis_candidates, dis_context, selVars, thrVars, parseVars,
                   aggVars, batchVars, cacheVars, rcVars>>

\* -------------------------------------------------- disambiguation: claim C13
\* C13: an empty candidate list is rejected with an error; otherwise the
\* call returns a candidate: the first one when there is one candidate or no
\* context, else one whose squared distance to the centroid of the context
\* is minimal over all candidates; [(0,0),(10,10)] with [(1,1)] gives (0,0).
C13_NearestToCentroid ==
    dis_result # NotCalled =>
        /\ dis_candidates = <<>> => dis_result.error = "ValueError"
        /\ dis_candidates # <<>> =>
            /\ dis_result.error = "None"
            /\ \E i \in 1..Len(dis_candidates) : dis_result.coord = dis_candidates[i]
            /\ (Len(dis_candidates) = 1 \/ dis_context = <<>>)
                 => dis_result.coord = dis_candidates[1]
            /\ (Len(dis_candidates) > 1 /\ dis_context # <<>>)
                 => \A j \in 1..Len(dis_candidates) :
                        SquaredDistance(dis_result.coord, dis_context)
                            <= SquaredDistance(dis_candidates[j], dis_context)
        /\ (dis_candidates = <<<<0, 0>>, <<10, 10>>>> /\ dis_context = <<<<1, 1>>>>)
             => dis_result.coord = <<0, 0>>

C13_Witness ==
    /\ dis_candidates = <<<<0, 0>>, <<10, 10>>>>
    /\ dis_context = <<<<10, 10>>, <<10, 1>>>>
    /\ dis_result = [error |-> "None", coord |-> <<10, 10>>]

\* --------------------- GeocodingService.geocode_batch and geocode_location
\* The store of the orchestrator's runs: place 1 has the children 2 and 3,
\* place 2 has the child 4, any further place is a top-level place.
BatchHierarchy ==
    [i \in PlaceIds |-> IF i \in {2, 3} THEN 1 ELSE IF i = 4 THEN 2 ELSE 0]

\* the location strings of a request, as token sequences
BatchTexts ==
    { <<"Sindh">>,
      <<"Balochistan">>,
      <<" ">>,
      <<"Central">>,
      <<"Central", " ", "Sindh">>,
      <<"south", " ", "Sindh", " ", "and", " ", "Balochistan">> }

BatchInputs == UNION {[1..n -> BatchTexts] : n \in 0..MaxBatch}

\* GeocodeOptions
OptionValues ==
    [prefer_lower_admin_levels : BOOLEAN, include_confidence_scores : BOOLEAN]

\* a row of search_by_fuzzy_name
Candidate(id, score) ==
    [id |-> id, hierarchy_level |-> HierarchyLevel(id), similarity_score |-> score]

\* what search_by_fuzzy_name may return for a name: the store's rows above
\* the threshold (one exact row for "Sindh", two close fuzzy rows for
\* "Balochistan", none for any other name), or [] when the query failed
FuzzyAnswers(name) ==
    {<<>>} \cup
    (IF name = <<"Sindh">> THEN {<<Candidate(1, 128)>>}
     ELSE IF name = <<"Balochistan">>
          THEN {<<Candidate(2, 121), Candidate(4, 115)>>}
     ELSE {})

\* NameMatcher.match from the rows on: None (0) without rows, else the match
NoMatch == [id |-> 0, hierarchy_level |-> 0, match_method |-> "None", confidence |-> -1]

\* mutant: the matcher finds nothing whatever the rows
MatchIgnored(rows) == NoMatch

MatchOf(rows) ==
    IF rows = <<>> THEN NoMatch
    ELSE LET b == rows[SelectBestCandidate(rows, prefer_lower_levels)]
         IN  [id |-> b.id, hierarchy_level |-> b.hierarchy_level,
              match_method |-> MatchMethod(b.similarity_score),
              confidence |-> b.similarity_score]

\* the coordinates the geocoding service knows: a point outside every
\* boundary of the store and a point inside place 4
OutsidePoint == <<0, 0>>
InsidePoint == <<10, 10>>
GeoCoords == {OutsidePoint, InsidePoint}

\* the (lon, lat) pairs of a response of the geocoding service, by relevance
GeocoderAnswers ==
    {<<>>} \cup {<<c>> : c \in GeoCoords} \cup
    {<<c, d>> : c \in GeoCoords, d \in GeoCoords}

\* how the request of ExternalGeocoder.geocode ends: a response, the 10 s
\* timeout of the client, another transport error, an HTTP error status
GeocoderOutcomes == {"ok", "timeout", "transport_error", "http_error"}

\* mutant: the coordinates are returned however the request ended
GeocodeUnguarded(outcome, data) == data

\* ExternalGeocoder.geocode: the coordinates of the response; every except
\* clause returns []
Geocode(outcome, data) == IF outcome = "ok" THEN data ELSE <<>>

\* geocode_batch calls geocode_location(location, options, None)
BatchContext == <<>>

\* find_by_coordinates: the containing place, None (0) outside every boundary
\* or when the query failed
PipAnswers(coord) == {0} \cup (IF coord = InsidePoint THEN {4} ELSE {})

\* suggest_alternatives: the number of suggestions, 0 to limit
SuggestionAnswers == {0, 1}

\* find_places_in_direction: rows of store places, 0 standing for a row
\* without id, name or hierarchy_level; [] also when the query failed
RegionAnswers == { <<>>, <<0>>, <<0, 4>>, <<2, 3>>, <<2, 3, 4>> }

\* mutant: no validation of the rows
AllRows(rows) == rows

\* the validation loop of _process_directional
ValidRows(rows) == SelectSeq(rows, LAMBDA r : r # 0)

\* MatchedPlace
MatchedPlace(id, method, confidence) ==
    [id |-> id, hierarchy_level |-> HierarchyLevel(id),
     match_method |-> method, confidence |-> confidence]

\* GeocodeResult; regions_processed <<>> and direction "None" stand for null
GeocodeResult(input, matched, regions, direction, error) ==
    [input |-> input, matched_places |-> matched, regions_processed |-> regions,
     direction |-> direction, error |-> error]

Failed(input, error) == GeocodeResult(input, <<>>, <<>>, "None", error)

\* the locals of geocode_location before it runs
\* with them: rows, the rows the matcher got from search_by_fuzzy_name;
\* geocoder, how the geocoder's request ended; calls, the calls made to the
\* repository and to the geocoder, in order; queried_ids, the base_place_ids
\* argument of find_places_in_direction
IdleLocals ==
    [direction |-> "None", place_names |-> <<>>, name_idx |-> 0,
     base_place_ids |-> <<>>, matched_base_names |-> <<>>,
     rows |-> <<>>, coords |-> <<>>, geocoder |-> "None",
     selected_coord |-> NoCoord, calls |-> <<>>, queried_ids |-> <<>>]

\* the location the loop of geocode_batch is at
Location == locations[Len(results) + 1]

\* place_names[0] if place_names else location
PlaceName == IF frame.place_names # <<>> THEN frame.place_names[1] ELSE Location

\* mutant: the result is put in front of the list
PrependResult(rs, r) == <<r>> \o rs

\* results.append(result)
AppendResult(rs, r) == Append(rs, r)

\* mutant: geocode_location without its except clause
ExceptNothing(location) == [caught |-> FALSE, result |-> Failed(location, "None")]

\* except Exception as e: return GeocodeResult(input=location, matched_places=[], error=...)
ExceptException(location) ==
    [caught |-> TRUE, result |-> Failed(location, "Geocoding failed")]

\* the locals of _aggregate_hierarchy are gone once its caller has returned
AggregateLocalsDropped ==
    /\ agg_pc' = "done"
    /\ agg_input' = <<>>
    /\ places' = <<>>
    /\ valid_places' = <<>>
    /\ place_by_id' = {}
    /\ by_parent' = [p \in 0..MaxPlaces |-> <<>>]
    /\ places_to_remove' = {}
    /\ unique_parent_ids' = {}
    /\ actual_child_counts' = <<>>
    /\ parent_details' = {}
    /\ passes' = 0
    /\ agg_result' = <<>>
    /\ UNCHANGED <<parent_of, store_faulty, agg_round, first_result>>

\* mutant: the region is queried whatever was resolved
BaseUnchecked(base_place_ids) == FALSE

\* if not base_place_ids
NoBaseResolved(base_place_ids) == base_place_ids = <<>>

\* mutant: every input goes to _process_simple
NeverDirectional(direction) == FALSE

\* if direction: _process_directional(...) else: _process_simple(...)
Directional(direction) == direction # "None"

\* mutant: the confidence is kept whatever the options
ConfidenceKept(match) == match.confidence

\* confidence=match.get('confidence') if options.include_confidence_scores else None
Confidence(match) ==
    IF options.include_confidence_scores THEN match.confidence ELSE -1

\* geocode_location returned r with the locals f: the loop appends r and
\* goes on; the locals stay readable until the next call begins
Return(r, f) ==
    /\ results' = AppendResult(results, r)
    /\ batch_pc' = IF Len(results) + 1 >= Len(locations) THEN "done" ELSE "loop"
    /\ loc_pc' = "parse"
    /\ frame' = f

\* if not locations: return []
BatchStart ==
    /\ batch_pc = "start"
    /\ batch_pc' = IF locations = <<>> THEN "done" ELSE "loop"
    /\ results' = <<>>
    /\ UNCHANGED <<locations, options, loc_pc, frame, raised_at,
                   selVars, thrVars, disVars, cacheVars, rcVars, parseVars, aggVars>>

\* geocode_location up to the dispatch on direction; _process_directional's
\* check of place_names
ParseLocation ==
    /\ batch_pc = "loop"
    /\ loc_pc = "parse"
    /\ LET p == Parse(Location)
       IN  IF Directional(p.direction) /\ p.place_names = <<>>
           THEN /\ Return(Failed(Location, "No place names found after parsing direction"),
                          [IdleLocals EXCEPT !.direction = p.direction])
           ELSE /\ loc_pc' = IF Directional(p.direction) THEN "base_match" ELSE "match"
                /\ frame' = [IdleLocals EXCEPT !.direction = p.direction,
                                             !.place_names = p.place_names,
                                             !.name_idx = 1]
                /\ UNCHANGED <<results, batch_pc>>
    /\ UNCHANGED <<locations, options, raised_at, selVars, thrVars, disVars, cacheVars, rcVars, parseVars, aggVars>>

\* _process_simple step 1: matcher.match(place_name); a blank name is not
\* searched for
MatchSimple ==
    /\ batch_pc = "loop"
    /\ loc_pc = "match"
    /\ \E rows \in (IF Strip(PlaceName) = <<>> THEN {<<>>}
                   ELSE FuzzyAnswers(Strip(PlaceName))) :
        LET match == MatchOf(rows)
            f == [frame EXCEPT !.rows = rows,
                               !.calls = IF Strip(PlaceName) = <<>> THEN @
                                         ELSE Append(@, "search_by_fuzzy_name")]
        IN  IF match # NoMatch
            THEN Return(GeocodeResult(Location,
                     <<MatchedPlace(match.id, match.match_method, Confidence(match))>>,
                     <<>>, "None", "None"), f)
            ELSE /\ loc_pc' = "geocode"
                 /\ frame' = f
                 /\ UNCHANGED <<results, batch_pc>>
    /\ UNCHANGED <<locations, options, raised_at, selVars, thrVars, disVars, cacheVars, rcVars, parseVars, aggVars>>

\* _process_simple step 2 and 3: geocoder.geocode, then the choice of a
\* candidate among several when there is a batch_context
GeocodeSimple ==
    /\ batch_pc = "loop"
    /\ loc_pc = "geocode"
    /\ \E outcome \in GeocoderOutcomes, data \in GeocoderAnswers :
        LET coords == Geocode(outcome, data)
        IN  /\ \E selected \in
                    (IF coords = <<>> THEN {NoCoord}
                     ELSE IF Len(coords) > 1 /\ BatchContext # <<>>
                          THEN {r.coord : r \in DisambiguateByCentroid(coords, BatchContext)}
                     ELSE {coords[1]}) :
                  frame' = [frame EXCEPT !.coords = coords,
                                         !.geocoder = outcome,
                                         !.selected_coord = selected,
                                         !.calls = Append(@, "geocode")]
            /\ loc_pc' = IF coords = <<>> THEN "suggest" ELSE "pip"
    /\ UNCHANGED <<locations, options, results, batch_pc, raised_at,
                   selVars, thrVars, disVars, cacheVars, rcVars, parseVars, aggVars>>

\* no coordinates: suggest_alternatives and the "No match found" result
SuggestSimple ==
    /\ batch_pc = "loop"
    /\ loc_pc = "suggest"
    /\ \E n \in SuggestionAnswers :
        Return(Failed(Location,
                   IF n > 0 THEN "No match found. Did you mean"
                   ELSE "No match found in database or external geocoding service"),
               [frame EXCEPT !.calls = Append(@, "search_by_fuzzy_name")])
    /\ UNCHANGED <<locations, options, raised_at, selVars, thrVars, disVars, cacheVars, rcVars, parseVars, aggVars>>

\* _process_simple step 4: find_by_coordinates on the selected coordinate
PointInPolygon ==
    /\ batch_pc = "loop"
    /\ loc_pc = "pip"
    /\ \E place \in PipAnswers(frame.selected_coord) :
        IF place = 0
        THEN Return(Failed(Location, "not within Pakistan administrative boundaries"),
                    [frame EXCEPT !.calls = Append(@, "find_by_coordinates")])
        ELSE Return(GeocodeResult(Location,
                 <<MatchedPlace(place, "point_in_polygon", -1)>>, <<>>, "None", "None"),
                    [frame EXCEPT !.calls = Append(@, "find_by_coordinates")])
    /\ UNCHANGED <<locations, options, raised_at, selVars, thrVars, disVars, cacheVars, rcVars, parseVars, aggVars>>

\* _process_directional step 1: one iteration of "for place_name in
\* place_names", and after the last one the check of base_place_ids
MatchBase ==
    /\ batch_pc = "loop"
    /\ loc_pc = "base_match"
    /\ IF frame.name_idx <= Len(frame.place_names)
       THEN /\ \E rows \in FuzzyAnswers(frame.place_names[frame.name_idx]) :
                LET match == MatchOf(rows)
                IN  frame' = IF match # NoMatch
                           THEN [frame EXCEPT
                                    !.name_idx = @ + 1,
                                    !.base_place_ids = Append(@, match.id),
                                    !.matched_base_names = Append(@, match.id),
                                    !.calls = Append(@, "search_by_fuzzy_name")]
                           ELSE [frame EXCEPT
                                    !.name_idx = @ + 1,
                                    !.calls = Append(@, "search_by_fuzzy_name")]
            /\ UNCHANGED <<results, batch_pc, loc_pc>>
       ELSE IF NoBaseResolved(frame.base_place_ids)
            THEN Return(Failed(Location, "Could not match any base places"), frame)
            ELSE /\ loc_pc' = "region"
                 /\ UNCHANGED <<results, batch_pc, frame>>
    /\ UNCHANGED <<locations, options, raised_at, selVars, thrVars, disVars, cacheVars, rcVars, parseVars, aggVars>>

\* _process_directional step 2: find_places_in_direction and the validation
\* of its rows; the valid rows go to _aggregate_hierarchy
QueryRegion ==
    /\ batch_pc = "loop"
    /\ loc_pc = "region"
    /\ \E rows \in RegionAnswers :
        IF rows = <<>>
        THEN /\ Return(GeocodeResult(Location, <<>>, frame.matched_base_names,
                           frame.direction, "No places found in region"),
                        [frame EXCEPT !.rows = rows,
                                      !.calls = Append(@, "find_places_in_direction"),
                                      !.queried_ids = frame.base_place_ids])
             /\ UNCHANGED <<places, agg_input, agg_pc, passes>>
        ELSE IF ValidRows(rows) = <<>>
        THEN /\ Return(GeocodeResult(Location, <<>>, frame.matched_base_names,
                           frame.direction, "Internal error: invalid results from database"),
                        [frame EXCEPT !.rows = rows,
                                      !.calls = Append(@, "find_places_in_direction"),
                                      !.queried_ids = frame.base_place_ids])
             /\ UNCHANGED <<places, agg_input, agg_pc, passes>>
        ELSE /\ loc_pc' = "aggregate"
             /\ places' = ValidRows(rows)
             /\ agg_input' = ValidRows(rows)
             /\ agg_pc' = "start"
             /\ passes' = 0
             /\ frame' = [frame EXCEPT !.rows = rows,
                                       !.calls = Append(@, "find_places_in_direction"),
                                      !.queried_ids = frame.base_place_ids]
             /\ UNCHANGED <<results, batch_pc>>
    /\ UNCHANGED <<locations, options, raised_at, selVars, thrVars, disVars, cacheVars, rcVars, parseVars,
                   parent_of, store_faulty, valid_places, place_by_id, by_parent,
                   places_to_remove, unique_parent_ids, actual_child_counts,
                   parent_details, agg_result, agg_round, first_result>>

\* _process_directional step 4: the aggregated places become MatchedPlace
\* objects; a place whose conversion raises is skipped
ConvertAggregated ==
    /\ batch_pc = "loop"
    /\ loc_pc = "aggregate"
    /\ agg_pc = "done"
    /\ \E skipped \in {{}, Ids(agg_result)} \cup {{x} : x \in Ids(agg_result)} :
        Return(GeocodeResult(Location,
            [i \in 1..Len(SelectSeq(agg_result, LAMBDA x : x \notin skipped)) |->
                MatchedPlace(SelectSeq(agg_result, LAMBDA x : x \notin skipped)[i],
                             "directional_intersection", -1)],
            frame.matched_base_names, frame.direction, "None"), frame)
    /\ AggregateLocalsDropped
    /\ UNCHANGED <<locations, options, raised_at, selVars, thrVars, disVars, cacheVars, rcVars, parseVars>>

\* the try block spans the whole body of geocode_location: an exception (a
\* malformed row of the store, a failed id conversion, a failing component)
\* may surface at any step of the resolution but the geocoder's, which
\* catches every exception itself
Raising ==
    loc_pc \in {"parse", "match", "suggest", "pip",
                "base_match", "region", "aggregate"}

\* an exception inside geocode_location, and what becomes of it
Raise ==
    /\ batch_pc = "loop"
    /\ Raising
    /\ raised_at' = raised_at \cup {Len(results) + 1}
    /\ AggregateLocalsDropped
    /\ IF ExceptException(Location).caught
       THEN Return(ExceptException(Location).result,
                   IF loc_pc = "parse" THEN IdleLocals ELSE frame)
       ELSE /\ batch_pc' = "raised"
            /\ UNCHANGED <<results, loc_pc, frame>>
    /\ UNCHANGED <<locations, options, selVars, thrVars, disVars, cacheVars, rcVars, parseVars>>

NextBatch ==
    \/ BatchStart
    \/ ParseLocation
    \/ MatchSimple
    \/ GeocodeSimple
    \/ SuggestSimple
    \/ PointInPolygon
    \/ MatchBase
    \/ QueryRegion
    \/ AggStart
    \/ \E p \in PlaceIds : AggPromote(p)
    \/ AggFinish
    \/ ConvertAggregated
    \/ Raise

\* ------------------------------------------------ orchestrator: claims C1, C2
\* C1: geocode_batch returns one result per location, in the order of the
\* locations: result i answers location i, and no location gives no result.
C1_OneResultPerLocationInOrder ==
    /\ Len(results) <= Len(locations)
    /\ \A i \in 1..Len(results) : results[i].input = locations[i]
    /\ batch_pc = "done" => Len(results) = Len(locations)

C1_Witness ==
    /\ batch_pc = "done"
    /\ Len(locations) = 2
    /\ locations[1] # locations[2]
    /\ results[1].input = locations[1]
    /\ results[2].input = locations[2]
    /\ results[1].error # "None"
    /\ results[2].error = "None"

\* C2: an exception raised while one location is resolved is caught in
\* geocode_location and becomes that location's result, with no matched
\* places and an error; geocode_batch never raises, resolves the locations
\* after it, and never alters a result it already holds.
C2_ExceptionConfinedToItsLocation ==
    /\ [](/\ batch_pc # "raised"
          /\ \A i \in raised_at :
                /\ i <= Len(results)
                /\ results[i].input = locations[i]
                /\ results[i].matched_places = <<>>
                /\ results[i].error # "None"
          /\ batch_pc = "done" => Len(results) = Len(locations))
    /\ [][/\ Len(results') >= Len(results)
          /\ SubSeq(results', 1, Len(results)) = results]_vars

C2_Witness ==
    /\ batch_pc = "done"
    /\ Len(locations) = 2
    /\ raised_at = {1}
    /\ results[1].matched_places = <<>>
    /\ results[1].error = "Geocoding failed"
    /\ results[2].matched_places # <<>>
    /\ results[2].error = "None"

\* ----------------------------------------------------- orchestrator: claim C12
\* the texts that are a direction phrase and nothing else
DirectionOnlyTexts ==
    {t \in BatchTexts : Parse(t).direction # "None" /\ Remainder(t) = <<>>}

DirectionOnly(text) == text \in DirectionOnlyTexts

\* geocode_location has returned and the next call has not begun: frame holds
\* the locals of the call that gave the last result
Completed == results # <<>> /\ loc_pc = "parse"

LastResult == results[Len(results)]

\* C12: a location that is only a direction phrase is unresolvable: its
\* result has no matched places and an error, its resolution never leaves
\* the parsing step, and no fuzzy-name lookup, geocoder call or region query
\* is made for it.
C12_DirectionOnlyUnresolvable ==
    /\ \A i \in 1..Len(results) :
          DirectionOnly(locations[i]) =>
              results[i].matched_places = <<>> /\ results[i].error # "None"
    /\ (batch_pc = "loop" /\ DirectionOnly(Location)) => loc_pc = "parse"
    /\ (Completed /\ DirectionOnly(LastResult.input)) => frame.calls = <<>>

C12_Witness ==
    /\ batch_pc = "done"
    /\ locations = << <<"Sindh">>, <<"Central">> >>
    /\ results[1].error = "None"
    /\ results[2].matched_places = <<>>
    /\ results[2].error = "No place names found after parsing direction"
    /\ frame.calls = <<>>

\* ----------------------------------------------------- orchestrator: claim C14
\* the coordinates of the locations of the batch completed so far: a location
\* resolved by point-in-polygon to place 4 was geocoded to InsidePoint
ResolvedByPoint(r) ==
    r.matched_places # <<>> /\ r.matched_places[1].match_method = "point_in_polygon"

EarlierCoords ==
    [i \in 1..Len(SelectSeq(results, ResolvedByPoint)) |-> InsidePoint]

\* C14: when the geocoder gives several candidates for a location of a batch
\* and earlier locations of the batch have coordinates, the coordinate given
\* to the point-in-polygon lookup is the candidate nearest the centroid of
\* those coordinates.
C14_DisambiguatedByBatchContext ==
    (batch_pc = "loop" /\ loc_pc = "pip" /\ Len(frame.coords) > 1
        /\ EarlierCoords # <<>>)
    => frame.selected_coord \in
           {r.coord : r \in DisambiguateByCentroid(frame.coords, EarlierCoords)}

\* ----------------------------------------------------- orchestrator: claim C15
\* the last call of the completed resolution was the region query
RegionQueried ==
    /\ Completed
    /\ frame.calls # <<>>
    /\ frame.calls[Len(frame.calls)] = "find_places_in_direction"

\* C15: of the rows of the region query exactly those with id, name and
\* hierarchy_level go to the aggregation, in their order; rows of which none
\* is valid give a failure with the internal error, no row at all gives the
\* failure with the empty-region error, and both failures carry the matched
\* base regions and the direction.
C15_MalformedRowsDropped ==
    /\ (batch_pc = "loop" /\ loc_pc = "aggregate") =>
          /\ agg_input # <<>>
          /\ \A k \in 1..Len(agg_input) : agg_input[k] # 0
          /\ Len(agg_input) = Cardinality({k \in 1..Len(frame.rows) : frame.rows[k] # 0})
          /\ \A k \in 1..Len(agg_input) :
                \E j \in k..Len(frame.rows) :
                    /\ frame.rows[j] = agg_input[k]
                    /\ Cardinality({i \in 1..j : frame.rows[i] # 0}) = k
    /\ (RegionQueried /\ frame.rows # <<>> /\ \A k \in 1..Len(frame.rows) : frame.rows[k] = 0) =>
          /\ LastResult.matched_places = <<>>
          /\ LastResult.error = "Internal error: invalid results from database"
          /\ LastResult.regions_processed = frame.matched_base_names
          /\ LastResult.regions_processed # <<>>
          /\ LastResult.direction = frame.direction
          /\ LastResult.direction # "None"
    /\ (RegionQueried /\ frame.rows = <<>>) =>
          /\ LastResult.matched_places = <<>>
          /\ LastResult.error = "No places found in region"
          /\ LastResult.regions_processed = frame.matched_base_names
          /\ LastResult.regions_processed # <<>>
          /\ LastResult.direction = frame.direction
          /\ LastResult.direction # "None"

C15_Witness ==
    /\ batch_pc = "loop"
    /\ loc_pc = "aggregate"
    /\ frame.rows = <<0, 4>>
    /\ agg_input = <<4>>
    /\ Len(results) = 1
    /\ results[1].error = "Internal error: invalid results from database"
    /\ results[1].regions_processed = <<1>>
    /\ results[1].direction # "None"

\* ----------------------------------------------------- orchestrator: claim C16
GeocoderFailed == frame.geocoder \in {"timeout", "transport_error", "http_error"}

\* the resolution at hand, or the completed one, made the call
Called(name) == \E k \in 1..Len(frame.calls) : frame.calls[k] = name

NoMatchErrors ==
    {"No match found. Did you mean",
     "No match found in database or external geocoding service"}

\* C16: a timeout, a transport error or an HTTP error status of the geocoder
\* gives an empty list of coordinates; the call always returns, and never by
\* an exception; the location then gets a failure with no matched places and
\* a "no match" error, and no point-in-polygon lookup is made for it.
C16_GeocoderFailureIsNoMatch ==
    /\ [](GeocoderFailed =>
            /\ frame.coords = <<>>
            /\ loc_pc \in {"suggest", "parse"}
            /\ ~Called("find_by_coordinates")
            /\ Completed =>
                  /\ LastResult.matched_places = <<>>
                  /\ LastResult.error # "None"
                  /\ Len(results) \notin raised_at => LastResult.error \in NoMatchErrors)
    /\ [][(batch_pc = "loop" /\ loc_pc = "geocode") =>
            /\ loc_pc' \in {"suggest", "pip"}
            /\ frame'.geocoder \in GeocoderOutcomes
            /\ raised_at' = raised_at
            /\ results' = results]_vars

C16_Witness ==
    /\ Completed
    /\ frame.geocoder = "timeout"
    /\ frame.calls = <<"search_by_fuzzy_name", "geocode", "search_by_fuzzy_name">>
    /\ LastResult.matched_places = <<>>
    /\ LastResult.error = "No match found in database or external geocoding service"

\* ----------------------------------------------------- orchestrator: claim C17
\* C17: a matched place of a result has a confidence only if its method is
\* exact_name or fuzzy_name and the request asked for confidence scores; a
\* place found by point_in_polygon or directional_intersection has none.
C17_ConfidenceOnlyForNameMatches ==
    \A i \in 1..Len(results) :
        \A k \in 1..Len(results[i].matched_places) :
            /\ results[i].matched_places[k].confidence # -1 =>
                  /\ results[i].matched_places[k].match_method \in {"exact_name", "fuzzy_name"}
                  /\ options.include_confidence_scores
            /\ results[i].matched_places[k].match_method
                    \in {"point_in_polygon", "directional_intersection"}
                  => results[i].matched_places[k].confidence = -1

C17_Witness ==
    /\ batch_pc = "done"
    /\ options.include_confidence_scores
    /\ Len(results) = 2
    /\ results[1].matched_places # <<>>
    /\ results[1].matched_places[1].match_method = "exact_name"
    /\ results[1].matched_places[1].confidence = 128
    /\ results[2].matched_places # <<>>
    /\ results[2].matched_places[1].match_method = "point_in_polygon"
    /\ results[2].matched_places[1].confidence = -1

\* ----------------------------------------------------- orchestrator: claim C18
\* the completed resolution ended with a name match of the simple path
NameMatched ==
    /\ Completed
    /\ frame.direction = "None"
    /\ frame.rows # <<>>
    /\ LastResult.matched_places # <<>>
    /\ LastResult.matched_places[1].match_method \in {"exact_name", "fuzzy_name"}

\* C18: the place of a name match is the candidate the selector gives under
\* the request's option prefer_lower_admin_levels: the deepest candidate
\* within the tolerance of the best score when it is true, the candidate of
\* the highest score when it is false.
C18_RequestOptionGovernsSelection ==
    NameMatched =>
        LastResult.matched_places[1].id =
            frame.rows[SelectBestCandidate(frame.rows, options.prefer_lower_admin_levels)].id

\* ----------------------------------------------------- orchestrator: claim C20
\* the resolution at hand, or the completed one, is of the simple path
SimplePath == frame.direction = "None" /\ frame.name_idx = 1

\* the position of the first call of that name, 0 without one
FirstCall(name) ==
    IF Called(name)
    THEN CHOOSE k \in 1..Len(frame.calls) :
            /\ frame.calls[k] = name
            /\ \A j \in 1..(k - 1) : frame.calls[j] # name
    ELSE 0

\* C20: in the simple path the geocoder is called only once the matcher's
\* fuzzy-name lookup has given no candidate (for a name that is not blank
\* the store was searched first, and gave no row); find_by_coordinates is
\* called only once the geocoder has returned at least one coordinate; and a
\* lookup that gave rows ends the resolution with one matched place, by
\* name, without a geocoder or point-in-polygon call.
C20_SimplePathOrdering ==
    SimplePath =>
        /\ (Called("geocode") \/ (batch_pc = "loop" /\ loc_pc = "geocode")) =>
              /\ frame.rows = <<>>
              /\ frame.place_names # <<>> =>
                    /\ frame.calls # <<>>
                    /\ frame.calls[1] = "search_by_fuzzy_name"
                    /\ FirstCall("geocode") \in {0, 2}
        /\ (Called("find_by_coordinates") \/ (batch_pc = "loop" /\ loc_pc = "pip")) =>
              /\ Called("geocode")
              /\ frame.geocoder = "ok"
              /\ frame.coords # <<>>
              /\ FirstCall("find_by_coordinates") \in {0, FirstCall("geocode") + 1}
        /\ frame.rows # <<>> =>
              /\ Completed
              /\ frame.calls = <<"search_by_fuzzy_name">>
              /\ LastResult.error = "None"
              /\ Len(LastResult.matched_places) = 1
              /\ LastResult.matched_places[1].match_method \in {"exact_name", "fuzzy_name"}
              /\ \E k \in 1..Len(frame.rows) :
                    frame.rows[k].id = LastResult.matched_places[1].id

C20_Witness ==
    /\ batch_pc = "done"
    /\ Len(results) = 2
    /\ results[1].matched_places # <<>>
    /\ results[1].matched_places[1].match_method = "fuzzy_name"
    /\ results[2].matched_places # <<>>
    /\ results[2].matched_places[1].match_method = "point_in_polygon"
    /\ frame.rows = <<>>
    /\ frame.place_names # <<>>
    /\ frame.calls = <<"search_by_fuzzy_name", "geocode", "find_by_coordinates">>

\* ----------------------------------------------------- orchestrator: claim C21
\* the resolution at hand, or the completed one, is of the directional path
\* and has base place names
DirectionalPath == frame.direction # "None" /\ frame.place_names # <<>>

CountCalls(name) == Cardinality({k \in 1..Len(frame.calls) : frame.calls[k] = name})

\* the ids a base name can resolve to
BaseCandidateIds == {1, 2, 4}

\* C21: in the directional path the region query is made once, after a
\* lookup for every base name, with at least one name resolved and with the
\* ids of the resolved names as its argument; a name that does not resolve
\* does not stop the lookups of the others; when no name resolves the
\* result is a failure and there is no region query and no aggregation; the
\* path never calls the geocoder or the point-in-polygon lookup.
C21_DirectionalPathOrdering ==
    DirectionalPath =>
        /\ ~Called("geocode") /\ ~Called("find_by_coordinates")
        /\ loc_pc \in {"parse", "base_match", "region", "aggregate"}
        /\ (Called("find_places_in_direction")
                \/ (batch_pc = "loop" /\ loc_pc \in {"region", "aggregate"})) =>
              /\ frame.name_idx = Len(frame.place_names) + 1
              /\ CountCalls("search_by_fuzzy_name") = Len(frame.place_names)
              /\ \A k \in 1..Len(frame.place_names) :
                    frame.calls[k] = "search_by_fuzzy_name"
              /\ frame.base_place_ids # <<>>
              /\ Len(frame.base_place_ids) <= Len(frame.place_names)
              /\ \A k \in 1..Len(frame.base_place_ids) :
                    frame.base_place_ids[k] \in BaseCandidateIds
        /\ Called("find_places_in_direction") =>
              /\ CountCalls("find_places_in_direction") = 1
              /\ FirstCall("find_places_in_direction") = Len(frame.place_names) + 1
              /\ frame.queried_ids = frame.base_place_ids
        /\ frame.base_place_ids = <<>> =>
              /\ ~Called("find_places_in_direction")
              /\ loc_pc \in {"parse", "base_match"}
              /\ agg_pc = "done"
              /\ Completed =>
                    /\ LastResult.matched_places = <<>>
                    /\ LastResult.error # "None"
                    /\ Len(results) \notin raised_at =>
                          /\ LastResult.error = "Could not match any base places"
                          /\ CountCalls("search_by_fuzzy_name") = Len(frame.place_names)

C21_Witness ==
    /\ batch_pc = "loop"
    /\ loc_pc = "aggregate"
    /\ Len(frame.place_names) = 2
    /\ frame.base_place_ids = <<4>>
    /\ frame.queried_ids = <<4>>
    /\ frame.calls = <<"search_by_fuzzy_name", "search_by_fuzzy_name",
                       "find_places_in_direction">>
    /\ Len(results) = 1
    /\ results[1].error = "Could not match any base places"

\* ----------------------------------------------------- orchestrator: claim C28
\* C28 as stated: every result geocode_location returns has matched places
\* or an error; none has neither, the directional path's results after
\* aggregation and MatchedPlace conversion included.
C28_ResolvedOrFailed ==
    \A i \in 1..Len(results) :
        results[i].matched_places # <<>> \/ results[i].error # "None"

\* ------------------------------------------------------------ specifications
\* the selector on every candidate list of the bounds
InitSelector ==
    /\ candidates \in CandidateLists
    /\ prefer_lower_levels \in BOOLEAN
    /\ best_match = 0
    /\ threshold = DefaultThreshold
    /\ name_len = 0
    /\ adjusted_threshold = -1
    /\ location_string = <<>>
    /\ parsed = Unparsed
    /\ parent_of = [i \in PlaceIds |-> 0]
    /\ store_faulty = FALSE
    /\ agg_input = <<>>
    /\ agg_pc = "done"
    /\ places = <<>>
    /\ valid_places = <<>>
    /\ place_by_id = {}
    /\ by_parent = [p \in 0..MaxPlaces |-> <<>>]
    /\ places_to_remove = {}
    /\ unique_parent_ids = {}
    /\ actual_child_counts = <<>>
    /\ parent_details = {}
    /\ passes = 0
    /\ agg_result = <<>>
    /\ agg_round = 2
    /\ first_result = {}
    /\ locations = <<>>
    /\ options = [prefer_lower_admin_levels |-> TRUE, include_confidence_scores |-> TRUE]
    /\ results = <<>>
    /\ batch_pc = "done"
    /\ loc_pc = "parse"
    /\ frame = IdleLocals
    /\ raised_at = {}
    /\ dis_candidates = <<>>
    /\ dis_context = <<>>
    /\ dis_result = [error |-> "ValueError", coord |-> NoCoord]
    /\ place_cache = <<>>
    /\ cache_evicted = {}
    /\ cache_returned = {}
    /\ cache_instance = "None"
    /\ redis_data = NothingCached
    /\ store_returned = NothingCached
    /\ last_call = NoCall

SpecSelector == InitSelector /\ [][Select]_vars

\* the threshold adjustment on every configured threshold and name length
InitThreshold ==
    /\ candidates = <<>>
    /\ prefer_lower_levels = TRUE
    /\ best_match = 0
    /\ threshold \in 0..100
    /\ name_len \in 0..MaxNameLen
    /\ adjusted_threshold = -1
    /\ location_string = <<>>
    /\ parsed = Unparsed
    /\ parent_of = [i \in PlaceIds |-> 0]
    /\ store_faulty = FALSE
    /\ agg_input = <<>>
    /\ agg_pc = "done"
    /\ places = <<>>
    /\ valid_places = <<>>
    /\ place_by_id = {}
    /\ by_parent = [p \in 0..MaxPlaces |-> <<>>]
    /\ places_to_remove = {}
    /\ unique_parent_ids = {}
    /\ actual_child_counts = <<>>
    /\ parent_details = {}
    /\ passes = 0
    /\ agg_result = <<>>
    /\ agg_round = 2
    /\ first_result = {}
    /\ locations = <<>>
    /\ options = [prefer_lower_admin_levels |-> TRUE, include_confidence_scores |-> TRUE]
    /\ results = <<>>
    /\ batch_pc = "done"
    /\ loc_pc = "parse"
    /\ frame = IdleLocals
    /\ raised_at = {}
    /\ dis_candidates = <<>>
    /\ dis_context = <<>>
    /\ dis_result = [error |-> "ValueError", coord |-> NoCoord]
    /\ place_cache = <<>>
    /\ cache_evicted = {}
    /\ cache_returned = {}
    /\ cache_instance = "None"
    /\ redis_data = NothingCached
    /\ store_returned = NothingCached
    /\ last_call = NoCall

SpecThreshold == InitThreshold /\ [][AdjustThreshold]_vars

\* the parser on every well-formed text of at most MaxTokens tokens
InitParser ==
    /\ candidates = <<>>
    /\ prefer_lower_levels = TRUE
    /\ best_match = 0
    /\ threshold = DefaultThreshold
    /\ name_len = 0
    /\ adjusted_threshold = -1
    /\ \E n \in 0..MaxTokens : \E s \in [1..n -> Vocabulary] :
            WellFormed(s) /\ location_string = s
    /\ parsed = Unparsed
    /\ parent_of = [i \in PlaceIds |-> 0]
    /\ store_faulty = FALSE
    /\ agg_input = <<>>
    /\ agg_pc = "done"
    /\ places = <<>>
    /\ valid_places = <<>>
    /\ place_by_id = {}
    /\ by_parent = [p \in 0..MaxPlaces |-> <<>>]
    /\ places_to_remove = {}
    /\ unique_parent_ids = {}
    /\ actual_child_counts = <<>>
    /\ parent_details = {}
    /\ passes = 0
    /\ agg_result = <<>>
    /\ agg_round = 2
    /\ first_result = {}
    /\ locations = <<>>
    /\ options = [prefer_lower_admin_levels |-> TRUE, include_confidence_scores |-> TRUE]
    /\ results = <<>>
    /\ batch_pc = "done"
    /\ loc_pc = "parse"
    /\ frame = IdleLocals
    /\ raised_at = {}
    /\ dis_candidates = <<>>
    /\ dis_context = <<>>
    /\ dis_result = [error |-> "ValueError", coord |-> NoCoord]
    /\ place_cache = <<>>
    /\ cache_evicted = {}
    /\ cache_returned = {}
    /\ cache_instance = "None"
    /\ redis_data = NothingCached
    /\ store_returned = NothingCached
    /\ last_call = NoCall

SpecParser == InitParser /\ [][ParseCall]_vars

\* the aggregation on every hierarchy and every input set of the bounds, the
\* store's batch lookups failing or not
InitAggregate ==
    /\ candidates = <<>>
    /\ prefer_lower_levels = TRUE
    /\ best_match = 0
    /\ threshold = DefaultThreshold
    /\ name_len = 0
    /\ adjusted_threshold = -1
    /\ location_string = <<>>
    /\ parsed = Unparsed
    /\ parent_of \in Hierarchies
    /\ store_faulty \in BOOLEAN
    /\ agg_input \in InputLists
    /\ places = agg_input
    /\ agg_pc = "start"
    /\ valid_places = <<>>
    /\ place_by_id = {}
    /\ by_parent = [p \in 0..MaxPlaces |-> <<>>]
    /\ places_to_remove = {}
    /\ unique_parent_ids = {}
    /\ actual_child_counts = <<>>
    /\ parent_details = {}
    /\ passes = 0
    /\ agg_result = <<>>
    /\ agg_round = 1
    /\ first_result = {}
    /\ locations = <<>>
    /\ options = [prefer_lower_admin_levels |-> TRUE, include_confidence_scores |-> TRUE]
    /\ results = <<>>
    /\ batch_pc = "done"
    /\ loc_pc = "parse"
    /\ frame = IdleLocals
    /\ raised_at = {}
    /\ dis_candidates = <<>>
    /\ dis_context = <<>>
    /\ dis_result = [error |-> "ValueError", coord |-> NoCoord]
    /\ place_cache = <<>>
    /\ cache_evicted = {}
    /\ cache_returned = {}
    /\ cache_instance = "None"
    /\ redis_data = NothingCached
    /\ store_returned = NothingCached
    /\ last_call = NoCall

SpecAggregate == InitAggregate /\ [][NextAggregate]_vars

\* the same calls, each running on: an awaited lookup returns ([] or {} when
\* it fails) and the loops are over finite collections
SpecAggregateFair == SpecAggregate /\ WF_vars(NextAggregate)

\* geocode_batch on every request of the bounds, over the store of
\* BatchHierarchy, whose rows may be malformed and whose queries may fail;
\* the failures of the aggregation's own lookups are those of SpecAggregate
InitBatch ==
    /\ candidates = <<>>
    /\ prefer_lower_levels = TRUE
    /\ best_match = 0
    /\ threshold = DefaultThreshold
    /\ name_len = 0
    /\ adjusted_threshold = -1
    /\ location_string = <<>>
    /\ parsed = Unparsed
    /\ parent_of = BatchHierarchy
    /\ store_faulty = FALSE
    /\ agg_input = <<>>
    /\ places = <<>>
    /\ agg_pc = "done"
    /\ valid_places = <<>>
    /\ place_by_id = {}
    /\ by_parent = [p \in 0..MaxPlaces |-> <<>>]
    /\ places_to_remove = {}
    /\ unique_parent_ids = {}
    /\ actual_child_counts = <<>>
    /\ parent_details = {}
    /\ passes = 0
    /\ agg_result = <<>>
    /\ agg_round = 2
    /\ first_result = {}
    /\ locations \in BatchInputs
    /\ options \in OptionValues
    /\ results = <<>>
    /\ batch_pc = "start"
    /\ loc_pc = "parse"
    /\ frame = IdleLocals
    /\ raised_at = {}
    /\ dis_candidates = <<>>
    /\ dis_context = <<>>
    /\ dis_result = [error |-> "ValueError", coord |-> NoCoord]
    /\ place_cache = <<>>
    /\ cache_evicted = {}
    /\ cache_returned = {}
    /\ cache_instance = "None"
    /\ redis_data = NothingCached
    /\ store_returned = NothingCached
    /\ last_call = NoCall

SpecBatch == InitBatch /\ [][NextBatch]_vars

\* disambiguate_by_centroid on every candidate list and context of the bounds
InitDisambiguate ==
    /\ candidates = <<>>
    /\ prefer_lower_levels = TRUE
    /\ best_match = 0
    /\ threshold = DefaultThreshold
    /\ name_len = 0
    /\ adjusted_threshold = -1
    /\ location_string = <<>>
    /\ parsed = Unparsed
    /\ parent_of = [i \in PlaceIds |-> 0]
    /\ store_faulty = FALSE
    /\ agg_input = <<>>
    /\ agg_pc = "done"
    /\ places = <<>>
    /\ valid_places = <<>>
    /\ place_by_id = {}
    /\ by_parent = [p \in 0..MaxPlaces |-> <<>>]
    /\ places_to_remove = {}
    /\ unique_parent_ids = {}
    /\ actual_child_counts = <<>>
    /\ parent_details = {}
    /\ passes = 0
    /\ agg_result = <<>>
    /\ agg_round = 2
    /\ first_result = {}
    /\ locations = <<>>
    /\ options = [prefer_lower_admin_levels |-> TRUE, include_confidence_scores |-> TRUE]
    /\ results = <<>>
    /\ batch_pc = "done"
    /\ loc_pc = "parse"
    /\ frame = IdleLocals
    /\ raised_at = {}
    /\ dis_candidates \in PointLists
    /\ dis_context \in PointLists
    /\ dis_result = NotCalled
    /\ place_cache = <<>>
    /\ cache_evicted = {}
    /\ cache_returned = {}
    /\ cache_instance = "None"
    /\ redis_data = NothingCached
    /\ store_returned = NothingCached
    /\ last_call = NoCall

SpecDisambiguate == InitDisambiguate /\ [][Disambiguate]_vars

\* a new repository, its cache empty, under every sequence of calls
InitCache ==
    /\ candidates = <<>>
    /\ prefer_lower_levels = TRUE
    /\ best_match = 0
    /\ threshold = DefaultThreshold
    /\ name_len = 0
    /\ adjusted_threshold = -1
    /\ location_string = <<>>
    /\ parsed = Unparsed
    /\ parent_of = [i \in PlaceIds |-> 0]
    /\ store_faulty = FALSE
    /\ agg_input = <<>>
    /\ agg_pc = "done"
    /\ places = <<>>
    /\ valid_places = <<>>
    /\ place_by_id = {}
    /\ by_parent = [p \in 0..MaxPlaces |-> <<>>]
    /\ places_to_remove = {}
    /\ unique_parent_ids = {}
    /\ actual_child_counts = <<>>
    /\ parent_details = {}
    /\ passes = 0
    /\ agg_result = <<>>
    /\ agg_round = 2
    /\ first_result = {}
    /\ locations = <<>>
    /\ options = [prefer_lower_admin_levels |-> TRUE, include_confidence_scores |-> TRUE]
    /\ results = <<>>
    /\ batch_pc = "done"
    /\ loc_pc = "parse"
    /\ frame = IdleLocals
    /\ raised_at = {}
    /\ dis_candidates = <<>>
    /\ dis_context = <<>>
    /\ dis_result = [error |-> "ValueError", coord |-> NoCoord]
    /\ place_cache = <<>>
    /\ cache_evicted = {}
    /\ cache_returned = {}
    /\ cache_instance = "None"
    /\ redis_data = NothingCached
    /\ store_returned = NothingCached
    /\ last_call = NoCall

SpecCache == InitCache /\ [][NextCache]_vars

\* PlacesRepository.search_by_fuzzy_name and find_places_in_direction behind
\* the result cache
InitResultCache ==
    /\ candidates = <<>>
    /\ prefer_lower_levels = TRUE
    /\ best_match = 0
    /\ threshold = DefaultThreshold
    /\ name_len = 0
    /\ adjusted_threshold = -1
    /\ location_string = <<>>
    /\ parsed = Unparsed
    /\ parent_of = [i \in PlaceIds |-> 0]
    /\ store_faulty = FALSE
    /\ agg_input = <<>>
    /\ agg_pc = "done"
    /\ places = <<>>
    /\ valid_places = <<>>
    /\ place_by_id = {}
    /\ by_parent = [p \in 0..MaxPlaces |-> <<>>]
    /\ places_to_remove = {}
    /\ unique_parent_ids = {}
    /\ actual_child_counts = <<>>
    /\ parent_details = {}
    /\ passes = 0
    /\ agg_result = <<>>
    /\ agg_round = 2
    /\ first_result = {}
    /\ locations = <<>>
    /\ options = [prefer_lower_admin_levels |-> TRUE, include_confidence_scores |-> TRUE]
    /\ results = <<>>
    /\ batch_pc = "done"
    /\ loc_pc = "parse"
    /\ frame = IdleLocals
    /\ raised_at = {}
    /\ dis_candidates = <<>>
    /\ dis_context = <<>>
    /\ dis_result = [error |-> "ValueError", coord |-> NoCoord]
    /\ place_cache = <<>>
    /\ cache_evicted = {}
    /\ cache_returned = {}
    /\ cache_instance = "None"
    /\ redis_data = NothingCached
    /\ store_returned = NothingCached
    /\ last_call = NoCall

SpecResultCache == InitResultCache /\ [][NextResultCache]_vars

====
